---- MODULE Spec2Model ----
(***************************************************************************)
(* Model of the Kastela SDK client revisions: the request dispatcher       *)
(* (#request) with its version guard and error normalizer, and the         *)
(* endpoint methods that call it.                                          *)
(*                                                                         *)
(* JavaScript strings are sequences of tokens (each token a TLA+ string):  *)
(* version strings are spelled character by character, fixed literals are  *)
(* one token.  JavaScript values are tagged records.                       *)
(***************************************************************************)
EXTENDS Integers, Sequences, FiniteSets, TLC

VARIABLES rev, config, pc, op, args, request, axiosResult, dispatched,
          outcome, attempts, dispatches, settles, second, server

vars == <<rev, config, pc, op, args, request, axiosResult, dispatched,
          outcome, attempts, dispatches, settles, second, server>>

----------------------------------------------------------------------------
(* Bounds of the model *)

\* largest major, minor and patch number a server version is drawn from
MaxMajor == 1
MaxMinor == 3
MaxPatch == 1

----------------------------------------------------------------------------
(* JavaScript values *)

JSUndefined == [t |-> "undefined"]
JSNull == [t |-> "null"]
JSString(s) == [t |-> "string", s |-> s]
JSNumber(n) == [t |-> "number", n |-> n]
\* the number NaN
JSNaN == [t |-> "number", nan |-> TRUE]
JSBoolean(b) == [t |-> "boolean", b |-> b]
JSObject(f) == [t |-> "object", f |-> f]
JSArray(a) == [t |-> "array", a |-> a]

\* a one-token string
Str(x) == JSString(<<x>>)
EmptyString == JSString(<<>>)

Digits == <<"0", "1", "2", "3", "4", "5", "6", "7", "8", "9">>

IsDigit(c) == \E i \in 1..10 : Digits[i] = c

DigitValue(c) == (CHOOSE i \in 1..10 : Digits[i] = c) - 1

RECURSIVE NatToString(_)
NatToString(n) ==
  IF n < 10 THEN <<Digits[n + 1]>>
  ELSE NatToString(n \div 10) \o <<Digits[(n % 10) + 1]>>

\* the condition of `if (v)`
Truthy(v) ==
  CASE v.t = "undefined" -> FALSE
    [] v.t = "null" -> FALSE
    [] v.t = "string" -> Len(v.s) > 0
    [] v.t = "number" -> v # JSNaN /\ v.n # 0
    [] v.t = "boolean" -> v.b
    [] OTHER -> TRUE

\* typeof v
TypeOf(v) ==
  CASE v.t = "null" -> "object"
    [] v.t = "array" -> "object"
    [] OTHER -> v.t

RECURSIVE JoinComma(_)
JoinComma(strs) ==
  IF Len(strs) = 0 THEN <<>>
  ELSE IF Len(strs) = 1 THEN strs[1]
  ELSE strs[1] \o <<",">> \o JoinComma(Tail(strs))

\* String(v), as a template literal and the Error constructor apply it
RECURSIVE StringOf(_)
StringOf(v) ==
  CASE v.t = "undefined" -> <<"undefined">>
    [] v.t = "null" -> <<"null">>
    [] v.t = "string" -> v.s
    [] v.t = "number" -> IF v = JSNaN THEN <<"NaN">> ELSE NatToString(v.n)
    [] v.t = "boolean" -> IF v.b THEN <<"true">> ELSE <<"false">>
    [] v.t = "object" -> <<"[object Object]">>
    [] v.t = "array" ->
         JoinComma([i \in 1..Len(v.a) |->
                      IF v.a[i].t \in {"undefined", "null"} THEN <<>>
                      ELSE StringOf(v.a[i])])

\* v.name, for a value that is not null or undefined
GetProp(v, name) ==
  IF v.t = "object" /\ name \in DOMAIN v.f THEN v.f[name] ELSE JSUndefined

\* s contains sub as a contiguous run of tokens
Contains(s, sub) ==
  \E i \in 0..(Len(s) - Len(sub)) :
    \A j \in 1..Len(sub) : s[i + j] = sub[j]

----------------------------------------------------------------------------
(* semver: the part of the library that semver.satisfies(version, range)   *)
(* uses for the ranges `${expectedKastelaVersion} || v0.0.0`               *)

\* the pieces of s between the occurrences of the token sep
RECURSIVE SplitOn(_, _)
SplitOn(s, sep) ==
  IF \A i \in 1..Len(s) : s[i] # sep THEN <<s>>
  ELSE LET k == CHOOSE i \in 1..Len(s) :
                  s[i] = sep /\ \A j \in 1..(i - 1) : s[j] # sep
       IN <<SubSeq(s, 1, k - 1)>> \o SplitOn(SubSeq(s, k + 1, Len(s)), sep)

\* 0|[1-9]\d*
IsNumericId(s) ==
  /\ Len(s) > 0
  /\ \A i \in 1..Len(s) : IsDigit(s[i])
  /\ (Len(s) > 1 => s[1] # "0")

RECURSIVE ParseNat(_)
ParseNat(s) ==
  IF Len(s) = 0 THEN 0
  ELSE 10 * ParseNat(SubSeq(s, 1, Len(s) - 1)) + DigitValue(s[Len(s)])

\* alphanumeric prerelease identifiers, in ASCII order
AlnumIds == <<"alpha", "beta", "rc">>

IsAlnumId(s) == Len(s) = 1 /\ \E i \in 1..Len(AlnumIds) : AlnumIds[i] = s[1]

IsPrereleaseId(s) == IsNumericId(s) \/ IsAlnumId(s)

NotSemVer == [ok |-> FALSE]

StripV(s) == IF Len(s) > 0 /\ s[1] = "v" THEN Tail(s) ELSE s

\* new SemVer(s): v?MAJOR.MINOR.PATCH(-PRERELEASE)?, anything else throws
ParseSemVer(s) ==
  LET body == StripV(s)
      dash == SplitOn(body, "-")
      core == SplitOn(dash[1], ".")
      pre == IF Len(dash) = 1 THEN <<>>
             ELSE SplitOn(SubSeq(body, Len(dash[1]) + 2, Len(body)), ".")
  IN IF /\ Len(core) = 3
        /\ \A i \in 1..3 : IsNumericId(core[i])
        /\ (Len(dash) > 1 => \A i \in 1..Len(pre) : IsPrereleaseId(pre[i]))
     THEN [ok |-> TRUE,
           major |-> ParseNat(core[1]),
           minor |-> ParseNat(core[2]),
           patch |-> ParseNat(core[3]),
           prerelease |-> pre]
     ELSE NotSemVer

SemVer(major, minor, patch, pre) ==
  [ok |-> TRUE, major |-> major, minor |-> minor, patch |-> patch,
   prerelease |-> pre]

\* compareIdentifiers: numeric identifiers sort before alphanumeric ones
CompareIdentifiers(a, b) ==
  IF IsNumericId(a) /\ IsNumericId(b)
  THEN (IF ParseNat(a) < ParseNat(b) THEN -1
        ELSE IF ParseNat(a) > ParseNat(b) THEN 1 ELSE 0)
  ELSE IF IsNumericId(a) THEN -1
  ELSE IF IsNumericId(b) THEN 1
  ELSE LET ia == CHOOSE i \in 1..Len(AlnumIds) : AlnumIds[i] = a[1]
           ib == CHOOSE i \in 1..Len(AlnumIds) : AlnumIds[i] = b[1]
       IN IF ia < ib THEN -1 ELSE IF ia > ib THEN 1 ELSE 0

\* SemVer.comparePre
RECURSIVE ComparePre(_, _)
ComparePre(p, q) ==
  IF Len(p) = 0 /\ Len(q) = 0 THEN 0
  ELSE IF Len(p) = 0 THEN 1
  ELSE IF Len(q) = 0 THEN -1
  ELSE LET c == CompareIdentifiers(p[1], q[1])
       IN IF c # 0 THEN c
          ELSE IF Len(p) = 1 /\ Len(q) = 1 THEN 0
          ELSE IF Len(p) = 1 THEN -1
          ELSE IF Len(q) = 1 THEN 1
          ELSE ComparePre(Tail(p), Tail(q))

\* SemVer.compare
Compare(a, b) ==
  IF a.major # b.major THEN (IF a.major < b.major THEN -1 ELSE 1)
  ELSE IF a.minor # b.minor THEN (IF a.minor < b.minor THEN -1 ELSE 1)
  ELSE IF a.patch # b.patch THEN (IF a.patch < b.patch THEN -1 ELSE 1)
  ELSE ComparePre(a.prerelease, b.prerelease)

\* Comparator.test
ComparatorTest(c, v) ==
  CASE c.operator = "" -> Compare(v, c.semver) = 0
    [] c.operator = ">=" -> Compare(v, c.semver) >= 0
    [] c.operator = "<" -> Compare(v, c.semver) < 0

\* one alternative of a range: a full version is an exact match, a partial
\* version M.m is the X-range >=M.m.0 <M.(m+1).0-0
ParseComparators(s) ==
  LET core == SplitOn(StripV(s), ".")
  IN IF Len(core) = 3 /\ \A i \in 1..3 : IsNumericId(core[i])
     THEN {[operator |-> "",
            semver |-> SemVer(ParseNat(core[1]), ParseNat(core[2]),
                              ParseNat(core[3]), <<>>)]}
     ELSE IF Len(core) = 2 /\ \A i \in 1..2 : IsNumericId(core[i])
     THEN {[operator |-> ">=",
            semver |-> SemVer(ParseNat(core[1]), ParseNat(core[2]), 0, <<>>)],
           [operator |-> "<",
            semver |-> SemVer(ParseNat(core[1]), ParseNat(core[2]) + 1, 0,
                              <<<<"0">>>>)]}
     ELSE {}

\* new Range(r): the alternatives separated by ||
ParseRange(r) ==
  LET alts == SplitOn(r, " || ")
  IN {ParseComparators(alts[i]) : i \in 1..Len(alts)} \ {{}}

\* testSet: every comparator accepts the version, and a prerelease version
\* is accepted only by a set that names a prerelease of the same tuple
TestSet(set, v) ==
  /\ \A c \in set : ComparatorTest(c, v)
  /\ (Len(v.prerelease) > 0 =>
        \E c \in set :
          /\ Len(c.semver.prerelease) > 0
          /\ c.semver.major = v.major
          /\ c.semver.minor = v.minor
          /\ c.semver.patch = v.patch)

\* semver.satisfies(version, range): false for a missing or unparsable version
Satisfies(version, range) ==
  /\ Truthy(version)
  /\ version.t = "string"
  /\ ParseSemVer(version.s).ok
  /\ \E set \in ParseRange(range) : TestSet(set, ParseSemVer(version.s))

----------------------------------------------------------------------------
(* Errors and promise settlements *)

\* new Error(message): the message is "" when the argument is undefined.
\* site names the throw statement that created the error.
NewError(message, site) ==
  [name |-> "Error",
   message |-> IF message.t = "undefined" THEN <<>> ELSE StringOf(message),
   site |-> site,
   response |-> JSUndefined]

\* the error axios rejects with: it has a response exactly when the server
\* answered
AxiosError(message, response) ==
  [name |-> "AxiosError", message |-> message, site |-> "axios",
   response |-> response]

Fulfilled(value) == [settled |-> "fulfilled", value |-> value]
Rejected(error) == [settled |-> "rejected", error |-> error]
Pending == [settled |-> "pending"]

----------------------------------------------------------------------------
(* The client revisions *)

Revisions ==
  {"pathparam-v0.2", "namespaced-v0.0", "pathparam-v0.0", "proxy-v0.0",
   "batched-crypto", "batched-v0.2"}

\* the revisions whose #request reads the x-kastela-version header
GuardedRevisions == Revisions \ {"batched-crypto"}

HasVersionGuard(r) == r \in GuardedRevisions

\* the constant of a revision that has one
expectedKastelaVersion(r) ==
  CASE r \in {"pathparam-v0.2", "batched-v0.2"} -> <<"v", "0", ".", "2">>
    [] r \in {"namespaced-v0.0", "pathparam-v0.0", "proxy-v0.0"} ->
         <<"v", "0", ".", "0">>

\* a range that leaves out the v0.0.0 alternative
VersionRange_NoSentinel(r) == expectedKastelaVersion(r)

\* `${expectedKastelaVersion} || v0.0.0`
VersionRange(r) ==
  expectedKastelaVersion(r) \o <<" || ">> \o <<"v", "0", ".", "0", ".", "0">>

\* a mismatch message that does not name the actual version
MismatchMessage_NoActual(r, actual) ==
  <<"kastela server version mismatch, expected: ">>
    \o expectedKastelaVersion(r) \o <<".x">>

\* `kastela server version mismatch, expected: ${expectedKastelaVersion}.x,
\*  actual: ${actualKastelaVersion}`
MismatchMessage(r, actual) ==
  <<"kastela server version mismatch, expected: ">>
    \o expectedKastelaVersion(r) \o <<".x, actual: ">> \o StringOf(actual)

----------------------------------------------------------------------------
(* Transport: axios.request with the default validateStatus *)

ValidateStatus(status) == status >= 200 /\ status < 300

Response(status, data, headers) ==
  [t |-> "response", status |-> status, data |-> data, headers |-> headers]

\* what the axios promise settles with when the server answered
AxiosSettle(response) ==
  IF ValidateStatus(response.status)
  THEN Fulfilled(response)
  ELSE Rejected(AxiosError(<<"Request failed with status code ">>
                             \o NatToString(response.status), response))

\* what the axios promise settles with when no response arrived
AxiosFault(message) == Rejected(AxiosError(message, JSUndefined))

----------------------------------------------------------------------------
(* Request dispatcher: #request *)

\* error?.response?.data
ErrorResponseData(error) ==
  IF error.response.t = "undefined" THEN JSUndefined ELSE error.response.data

\* a catch block that takes the message from the body itself, structured or
\* not
NormalizeError_RawBody(error) ==
  LET data == ErrorResponseData(error)
  IN IF Truthy(data)
     THEN Rejected(NewError(data, "normalizer"))
     ELSE Rejected(error)

\* a catch block that reads the error field of every body, structured or not
NormalizeError_AlwaysField(error) ==
  LET data == ErrorResponseData(error)
  IN IF Truthy(data)
     THEN Rejected(NewError(GetProp(data, "error"), "normalizer"))
     ELSE Rejected(error)

\* a catch block that wraps an error without a body in a new Error
NormalizeError_WrapAll(error) ==
  LET data == ErrorResponseData(error)
  IN IF Truthy(data)
     THEN IF TypeOf(data) = "object"
          THEN Rejected(NewError(GetProp(data, "error"), "normalizer"))
          ELSE Rejected(NewError(data, "normalizer"))
     ELSE Rejected(NewError(JSString(error.message), "normalizer"))

\* a catch block that normalizes every body that is not undefined
NormalizeError_DefinedBody(error) ==
  LET data == ErrorResponseData(error)
  IN IF data.t # "undefined"
     THEN IF TypeOf(data) = "object"
          THEN Rejected(NewError(GetProp(data, "error"), "normalizer"))
          ELSE Rejected(NewError(data, "normalizer"))
     ELSE Rejected(error)

\* a catch block that rethrows when a structured body has no error field
NormalizeError_RethrowWithoutField(error) ==
  LET data == ErrorResponseData(error)
  IN IF Truthy(data)
     THEN IF TypeOf(data) = "object"
          THEN IF GetProp(data, "error").t = "undefined"
               THEN Rejected(error)
               ELSE Rejected(NewError(GetProp(data, "error"), "normalizer"))
          ELSE Rejected(NewError(data, "normalizer"))
     ELSE Rejected(error)

\* the catch block of #request
NormalizeError(error) ==
  LET data == ErrorResponseData(error)
  IN IF Truthy(data)
     THEN IF TypeOf(data) = "object"
          THEN Rejected(NewError(GetProp(data, "error"), "normalizer"))
          ELSE Rejected(NewError(data, "normalizer"))
     ELSE Rejected(error)

\* the version check of the try block; its throw is caught by the catch block
VersionGuard(r, response) ==
  LET actualKastelaVersion == GetProp(response.headers, "x-kastela-version")
  IN IF Satisfies(actualKastelaVersion, VersionRange(r))
     THEN Fulfilled(response.data)
     ELSE NormalizeError(
            NewError(JSString(MismatchMessage(r, actualKastelaVersion)),
                     "guard"))

\* a #request that checks the version header of every response, 2xx or not
RequestResult_GuardAlways(r, res) ==
  IF res.settled = "fulfilled"
  THEN IF HasVersionGuard(r)
       THEN VersionGuard(r, res.value)
       ELSE Fulfilled(res.value.data)
  ELSE IF /\ res.error.response.t = "response"
          /\ HasVersionGuard(r)
          /\ ~Satisfies(GetProp(res.error.response.headers,
                                "x-kastela-version"), VersionRange(r))
       THEN VersionGuard(r, res.error.response)
       ELSE NormalizeError(res.error)

\* a #request that sends the request again after a fault without a response
RequestResult_Retry(r, res) ==
  IF res.settled = "fulfilled"
  THEN IF HasVersionGuard(r)
       THEN VersionGuard(r, res.value)
       ELSE Fulfilled(res.value.data)
  ELSE IF res.error.response.t = "undefined"
       THEN Pending
       ELSE NormalizeError(res.error)

\* the part of #request that runs once the axios promise has settled
RequestResult(r, res) ==
  IF res.settled = "fulfilled"
  THEN IF HasVersionGuard(r)
       THEN VersionGuard(r, res.value)
       ELSE Fulfilled(res.value.data)
  ELSE NormalizeError(res.error)

----------------------------------------------------------------------------
(* Connection configuration and URLs *)

\* the server URL and the TLS material the constructor is given
Configurations ==
  {[kastelaUrl |-> <<"https://127.0.0.1:3100">>,
    ca |-> "ca.crt", cert |-> "client.crt", key |-> "client.key"]}

vaultPath == <<"/", "api", "/", "vault">>
protectionPath == <<"/", "api", "/", "protection">>
securePath == <<"/", "api", "/", "secure">>
cryptoPath == <<"/", "api", "/", "crypto">>

\* a server URL is spelled origin first, then the tokens of its own path
Origin(base) == <<base[1]>>

\* the token sep occurs in s
HasToken(s, sep) == \E i \in 1..Len(s) : s[i] = sep

\* the places of the token sep in s, and the first of them
Places(s, sep) == {i \in 1..Len(s) : s[i] = sep}
FirstPlace(s, sep) ==
  CHOOSE i \in Places(s, sep) : \A j \in Places(s, sep) : i <= j

\* the tokens of s before and after the first occurrence of the token sep
Before(s, sep) ==
  IF HasToken(s, sep) THEN SubSeq(s, 1, FirstPlace(s, sep) - 1) ELSE s
After(s, sep) ==
  IF HasToken(s, sep) THEN SubSeq(s, FirstPlace(s, sep) + 1, Len(s))
  ELSE <<>>

\* the segments of a path that starts with "/": what stands between one "/"
\* and the next, or the end
Segments(path) ==
  [k \in 1..Cardinality(Places(path, "/")) |->
     LET from == CHOOSE i \in Places(path, "/") :
                   Cardinality({j \in Places(path, "/") : j <= i}) = k
         to == CHOOSE i \in Places(path, "/") \cup {Len(path) + 1} :
                 /\ i > from
                 /\ \A j \in Places(path, "/") : j > from => i <= j
     IN SubSeq(path, from + 1, to - 1)]

\* the path state of the URL parser, segment by segment: ".." removes the
\* segment before it, "." is skipped, and either leaves an empty segment
\* when it is the last one
RECURSIVE RemoveDotSegments(_, _)
RemoveDotSegments(segs, out) ==
  IF Len(segs) = 0 THEN out
  ELSE LET seg == Head(segs)
           closing == IF Len(segs) = 1 THEN <<<<>>>> ELSE <<>>
       IN IF seg = <<"..">>
          THEN RemoveDotSegments(Tail(segs),
                 (IF Len(out) > 0 THEN SubSeq(out, 1, Len(out) - 1) ELSE out)
                   \o closing)
          ELSE IF seg = <<".">>
          THEN RemoveDotSegments(Tail(segs), out \o closing)
          ELSE RemoveDotSegments(Tail(segs), out \o <<seg>>)

\* the pathname made of the segments
RECURSIVE JoinPath(_)
JoinPath(segs) ==
  IF Len(segs) = 0 THEN <<>>
  ELSE <<"/">> \o Head(segs) \o JoinPath(Tail(segs))

\* a URL made by writing the path after the whole server URL
NewURL_Concatenate(path, base) ==
  [origin |-> base, pathname |-> path, search |-> <<>>, hash |-> <<>>,
   empty |-> {}]

\* a path cut at its delimiters: the first "#" starts the fragment, the first
\* "?" before it the query; empty holds the delimiters followed by nothing
SplitPath(path) ==
  [path |-> Before(Before(path, "#"), "?"),
   query |-> After(Before(path, "#"), "?"),
   fragment |-> After(path, "#"),
   empty |-> (IF HasToken(Before(path, "#"), "?")
                 /\ Len(After(Before(path, "#"), "?")) = 0
              THEN {"?"} ELSE {})
               \cup (IF HasToken(path, "#") /\ Len(After(path, "#")) = 0
                     THEN {"#"} ELSE {})]

\* the pathname of a URL: the path with its dot segments resolved, "/" when
\* nothing is left (the segments are computed once, then written out)
Pathname(path) ==
  CHOOSE name \in {IF Len(segs) = 0 THEN <<"/">> ELSE JoinPath(segs) :
                     segs \in {RemoveDotSegments(Segments(path), <<>>)}} : TRUE

\* new URL(path, kastelaUrl) for a path that starts with "/": the path
\* replaces the path of the server URL (the path is cut once, then each
\* part of the URL is read from the cut)
NewURL(path, base) ==
  CHOOSE url \in {[origin |-> Origin(base),
                   pathname |-> Pathname(parts.path),
                   search |-> parts.query,
                   hash |-> parts.fragment,
                   empty |-> parts.empty] : parts \in {SplitPath(path)}} : TRUE

\* url.search = s
SetSearch(url, s) == [url EXCEPT !.search = s, !.empty = @ \ {"?"}]

\* the JSON text axios sends for a body, read back: JSON.stringify leaves
\* out the properties whose value is undefined and writes null for such
\* array elements
RECURSIVE WireBody(_)
WireBody(v) ==
  CASE v.t = "object" ->
         JSObject([n \in {m \in DOMAIN v.f : v.f[m].t # "undefined"} |->
                     WireBody(v.f[n])])
    [] v.t = "array" ->
         JSArray([i \in 1..Len(v.a) |->
                    IF v.a[i].t = "undefined" THEN JSNull
                    ELSE WireBody(v.a[i])])
    [] v = JSNaN -> JSNull
    [] OTHER -> v

\* url.toString()
URLToString(url) ==
  url.origin \o url.pathname
    \o (IF Len(url.search) > 0 \/ "?" \in url.empty
        THEN <<"?">> \o url.search ELSE <<>>)
    \o (IF Len(url.hash) > 0 \/ "#" \in url.empty
        THEN <<"#">> \o url.hash ELSE <<>>)

\* a query string that keeps the first parameter only
SearchParamsToString_FirstOnly(pairs) ==
  IF Len(pairs) = 0 THEN <<>> ELSE <<pairs[1][1], "=">> \o pairs[1][2]

\* URLSearchParams.toString() of the pairs set so far
RECURSIVE SearchParamsToString(_)
SearchParamsToString(pairs) ==
  IF Len(pairs) = 0 THEN <<>>
  ELSE <<pairs[1][1], "=">> \o pairs[1][2]
         \o (IF Len(pairs) = 1 THEN <<>>
             ELSE <<"&">> \o SearchParamsToString(Tail(pairs)))

----------------------------------------------------------------------------
(* Endpoint methods *)

PathParamOps ==
  {"vaultStore", "vaultFetch", "vaultGet", "vaultUpdate", "vaultDelete",
   "protectionSeal", "protectionOpen"}

NamespacedOps ==
  {"vault.store", "vault.fetch", "vault.get", "vault.update", "vault.delete",
   "protection.seal", "protection.open"}

SecureOps == {"secureProtectionInit", "secureProtectionCommit"}

BatchedOps ==
  {"vaultStore", "vaultFetch", "vaultGet", "vaultUpdate", "vaultDelete",
   "protectionSeal", "protectionOpen"}

CryptoOps ==
  {"cryptoEncrypt", "cryptoDecrypt", "cryptoHMAC", "cryptoEqual",
   "cryptoSign", "cryptoVerify"}

\* the public operations of each revision
Methods(r) ==
  CASE r = "pathparam-v0.2" ->
         PathParamOps \cup SecureOps \cup {"privacyProxyRequest"}
    [] r = "namespaced-v0.0" -> NamespacedOps
    [] r = "pathparam-v0.0" -> PathParamOps
    [] r = "proxy-v0.0" -> PathParamOps \cup {"privacyProxy"}
    [] r = "batched-crypto" ->
         CryptoOps \cup BatchedOps \cup SecureOps
           \cup {"vaultCount", "protectionTokenize", "protectionFetch",
                 "protectionCount", "secureVaultInit", "privacyProxyRequest"}
    [] r = "batched-v0.2" ->
         BatchedOps \cup SecureOps \cup {"privacyProxyRequest"}

PathParamRevisions ==
  {"pathparam-v0.2", "namespaced-v0.0", "pathparam-v0.0", "proxy-v0.0"}

BatchedRevisions == {"batched-crypto", "batched-v0.2"}

\* the flat name of a method of the vault / protection namespaces
FlatName(o) ==
  CASE o = "vault.store" -> "vaultStore"
    [] o = "vault.fetch" -> "vaultFetch"
    [] o = "vault.get" -> "vaultGet"
    [] o = "vault.update" -> "vaultUpdate"
    [] o = "vault.delete" -> "vaultDelete"
    [] o = "protection.seal" -> "protectionSeal"
    [] o = "protection.open" -> "protectionOpen"
    [] OTHER -> o

\* what a method does with the data #request returned
Field(name) == [kind |-> "field", field |-> name]
Void == [kind |-> "void", field |-> ""]
Whole == [kind |-> "whole", field |-> ""]
Credential == [kind |-> "credential", field |-> "credential"]

Send(method, url, body, unwrap) ==
  [throws |-> FALSE, method |-> method, url |-> url, body |-> body,
   unwrap |-> unwrap]

\* a method that throws before it calls #request
Throw(message) == [throws |-> TRUE, error |-> NewError(Str(message), "method")]

\* input.map(f) for an array of input items
MapItems(input, f(_)) == JSArray([i \in 1..Len(input.a) |-> f(input.a[i])])

\* a search that sends size and after whenever the caller gave them
PathParamVaultFetch_WhenDefined(a, base) ==
  LET url == NewURL(vaultPath \o <<"/", a.vaultId>>, base)
      pairs == <<<<"search", a.search>>>>
                 \o (IF a.size # JSUndefined
                     THEN <<<<"size", StringOf(a.size)>>>> ELSE <<>>)
                 \o (IF a.after # JSUndefined
                     THEN <<<<"after", a.after.s>>>> ELSE <<>>)
  IN Send("GET", SetSearch(url, SearchParamsToString(pairs)),
          JSUndefined, Field("ids"))

\* vaultFetch(vaultId, search, params) of the path-parameter revisions
PathParamVaultFetch(a, base) ==
  LET url == NewURL(vaultPath \o <<"/", a.vaultId>>, base)
      pairs == <<<<"search", a.search>>>>
                 \o (IF Truthy(a.size)
                     THEN <<<<"size", StringOf(a.size)>>>> ELSE <<>>)
                 \o (IF Truthy(a.after)
                     THEN <<<<"after", a.after.s>>>> ELSE <<>>)
  IN Send("GET", SetSearch(url, SearchParamsToString(pairs)),
          JSUndefined, Field("ids"))

\* the vault and protection methods that put the identifier in the path
PathParamCall(o, a, base) ==
  CASE o = "vaultStore" ->
         Send("POST", NewURL(vaultPath \o <<"/", a.vaultId, "/", "store">>, base),
              JSObject([data |-> a.data]), Field("ids"))
    [] o = "vaultFetch" -> PathParamVaultFetch(a, base)
    [] o = "vaultGet" ->
         Send("POST", NewURL(vaultPath \o <<"/", a.vaultId, "/", "get">>, base),
              JSObject([ids |-> a.ids]), Field("data"))
    [] o = "vaultUpdate" ->
         Send("PUT", NewURL(vaultPath \o <<"/", a.vaultId, "/", a.token>>, base),
              a.data, Void)
    [] o = "vaultDelete" ->
         Send("DELETE",
              NewURL(vaultPath \o <<"/", a.vaultId, "/", a.token>>, base),
              JSUndefined, Void)
    [] o = "protectionSeal" ->
         Send("POST",
              NewURL(protectionPath \o <<"/", a.protectionId, "/", "seal">>, base),
              JSObject([ids |-> a.ids]), Void)
    [] o = "protectionOpen" ->
         Send("POST",
              NewURL(protectionPath \o <<"/", a.protectionId, "/", "open">>, base),
              JSObject([ids |-> a.ids]), Field("data"))

\* the secure-credential methods
SecureCall(o, a, base) ==
  CASE o = "secureProtectionInit" ->
         Send("POST", NewURL(securePath \o <<"/", "protection", "/", "init">>, base),
              JSObject([operation |-> a.operation,
                        protection_ids |-> a.ids, ttl |-> a.ttl]),
              Credential)
    [] o = "secureProtectionCommit" ->
         Send("POST", NewURL(securePath \o <<"/", "protection", "/", "commit">>, base),
              JSObject([credential |-> a.credential]), Void)
    [] o = "secureVaultInit" ->
         Send("POST", NewURL(securePath \o <<"/", "vault", "/", "init">>, base),
              JSObject([operation |-> a.operation,
                        vault_ids |-> a.ids, ttl |-> a.ttl]),
              Credential)

\* a privacyProxyRequest that asks for the root tag only when none was given
\* at all
PrivacyProxyRequestCall_EmptyTagAllowed(a, base) ==
  LET common == IF a.common.t = "undefined"
                THEN JSObject([protections |-> JSObject(<<>>),
                               vaults |-> JSObject(<<>>)])
                ELSE a.common
      options == IF a.options.t = "undefined" THEN JSObject(<<>>)
                 ELSE a.options
  IN IF a.type = Str("xml") /\ GetProp(options, "rootTag") = JSUndefined
     THEN Throw("rootTag is required for xml")
     ELSE Send("POST", NewURL(<<"/", "api", "/", "proxy">>, base),
               JSObject([type |-> a.type, url |-> a.url, method |-> a.method,
                         common |-> common, options |-> options]),
               Whole)

\* a privacyProxyRequest without default values for common and options
PrivacyProxyRequestCall_NoDefaults(a, base) ==
  IF a.type = Str("xml") /\ ~Truthy(GetProp(a.options, "rootTag"))
  THEN Throw("rootTag is required for xml")
  ELSE Send("POST", NewURL(<<"/", "api", "/", "proxy">>, base),
            JSObject([type |-> a.type, url |-> a.url, method |-> a.method,
                      common |-> a.common, options |-> a.options]),
            Whole)

\* privacyProxyRequest(type, url, method, common, options), with the
\* default values of common and options
PrivacyProxyRequestCall(a, base) ==
  LET common == IF a.common.t = "undefined"
                THEN JSObject([protections |-> JSObject(<<>>),
                               vaults |-> JSObject(<<>>)])
                ELSE a.common
      options == IF a.options.t = "undefined" THEN JSObject(<<>>)
                 ELSE a.options
  IN IF a.type = Str("xml") /\ ~Truthy(GetProp(options, "rootTag"))
     THEN Throw("rootTag is required for xml")
     ELSE Send("POST", NewURL(<<"/", "api", "/", "proxy">>, base),
               JSObject([type |-> a.type, url |-> a.url, method |-> a.method,
                         common |-> common, options |-> options]),
               Whole)

\* privacyProxy({type, url, method, headers, params, body, query, common,
\* rootTag})
PrivacyProxyCall(a, base) ==
  IF GetProp(a, "type") = Str("xml") /\ ~Truthy(GetProp(a, "rootTag"))
  THEN Throw("rootTag is required for xml")
  ELSE Send("POST", NewURL(<<"/", "api", "/", "proxy">>, base),
            JSObject([type |-> GetProp(a, "type"), url |-> GetProp(a, "url"),
                      method |-> GetProp(a, "method"),
                      headers |-> GetProp(a, "headers"),
                      params |-> GetProp(a, "params"),
                      body |-> GetProp(a, "body"),
                      query |-> GetProp(a, "query"),
                      common |-> GetProp(a, "common"),
                      rootTag |-> GetProp(a, "rootTag")]),
            Whole)

\* a vaultStore that sends the caller's items as they are
BatchedVaultStore_CamelCase(a, base) ==
  Send("POST", NewURL(vaultPath \o <<"/", "store">>, base), a.input,
       Field("tokens"))

\* vaultStore(input) of the batched revisions
BatchedVaultStore(a, base) ==
  Send("POST", NewURL(vaultPath \o <<"/", "store">>, base),
       MapItems(a.input,
                LAMBDA v : JSObject([vault_id |-> GetProp(v, "vaultID"),
                                     values |-> GetProp(v, "values")])),
       Field("tokens"))

\* a vaultDelete that sends the first item of its input only
BatchedVaultDelete_FirstItemOnly(a, base) ==
  Send("POST", NewURL(vaultPath \o <<"/", "delete">>, base),
       JSArray([i \in 1..(IF Len(a.input.a) = 0 THEN 0 ELSE 1) |->
                  JSObject([vault_id |-> GetProp(a.input.a[i], "vaultID"),
                            tokens |-> GetProp(a.input.a[i], "tokens")])]),
       Void)

\* vaultDelete(input) of the batched revisions
BatchedVaultDelete(a, base) ==
  Send("POST", NewURL(vaultPath \o <<"/", "delete">>, base),
       MapItems(a.input,
                LAMBDA v : JSObject([vault_id |-> GetProp(v, "vaultID"),
                                     tokens |-> GetProp(v, "tokens")])),
       Void)

\* a protectionOpen that reads the values field in both revisions
BatchedProtectionOpen_Values(r, a, base) ==
  Send("POST", NewURL(protectionPath \o <<"/", "open">>, base),
       MapItems(a.input,
                LAMBDA v :
                  JSObject([protection_id |-> GetProp(v, "protectionID"),
                            tokens |-> GetProp(v, "tokens")])),
       Field("values"))

\* protectionOpen(input) of the batched revisions
BatchedProtectionOpen(r, a, base) ==
  Send("POST", NewURL(protectionPath \o <<"/", "open">>, base),
       MapItems(a.input,
                LAMBDA v :
                  JSObject([protection_id |-> GetProp(v, "protectionID"),
                            tokens |-> GetProp(v, "tokens")])),
       IF r = "batched-v0.2" THEN Field("data") ELSE Field("values"))

\* the vault and protection methods that put the identifiers in the body
BatchedCall(r, o, a, base) ==
  CASE o = "vaultStore" -> BatchedVaultStore(a, base)
    [] o = "vaultFetch" ->
         LET required == [vault_id |-> GetProp(a.input, "vaultID"),
                          search |-> GetProp(a.input, "search")]
             size == GetProp(a.input, "size")
             after == GetProp(a.input, "after")
             withSize == IF Truthy(size) THEN [n \in {"size"} |-> size]
                         ELSE <<>>
             withAfter == IF after.t = "string" /\ Len(after.s) # 0
                          THEN [n \in {"after"} |-> after] ELSE <<>>
         IN Send("POST", NewURL(vaultPath \o <<"/", "fetch">>, base),
                 JSObject(required @@ withSize @@ withAfter), Field("tokens"))
    [] o = "vaultCount" ->
         Send("POST", NewURL(vaultPath \o <<"/", "count">>, base),
              JSObject([vault_id |-> GetProp(a.input, "vaultID"),
                        search |-> GetProp(a.input, "search")]),
              Field("count"))
    [] o = "vaultGet" ->
         Send("POST", NewURL(vaultPath \o <<"/", "get">>, base),
              MapItems(a.input,
                       LAMBDA v : JSObject([vault_id |-> GetProp(v, "vaultID"),
                                            tokens |-> GetProp(v, "tokens")])),
              Field("values"))
    [] o = "vaultUpdate" ->
         Send("POST", NewURL(vaultPath \o <<"/", "update">>, base),
              MapItems(a.input,
                       LAMBDA v : JSObject([vault_id |-> GetProp(v, "vaultID"),
                                            values |-> GetProp(v, "values")])),
              Void)
    [] o = "vaultDelete" -> BatchedVaultDelete(a, base)
    [] o = "protectionTokenize" ->
         Send("POST", NewURL(protectionPath \o <<"/", "tokenize">>, base),
              MapItems(a.input,
                       LAMBDA v :
                         JSObject([protection_id |-> GetProp(v, "protectionID"),
                                   values |-> GetProp(v, "values")])),
              Field("tokens"))
    [] o = "protectionSeal" ->
         Send("POST", NewURL(protectionPath \o <<"/", "seal">>, base),
              MapItems(a.input,
                       LAMBDA v :
                         JSObject([protection_id |-> GetProp(v, "protectionID"),
                                   primary_keys |-> GetProp(v, "primaryKeys")])),
              Void)
    [] o = "protectionOpen" -> BatchedProtectionOpen(r, a, base)
    [] o = "protectionFetch" ->
         Send("POST", NewURL(protectionPath \o <<"/", "fetch">>, base),
              JSObject([protection_id |-> GetProp(a.input, "protectionID"),
                        search |-> GetProp(a.input, "search")]),
              Field("primary_keys"))
    [] o = "protectionCount" ->
         Send("POST", NewURL(protectionPath \o <<"/", "count">>, base),
              JSObject([protection_id |-> GetProp(a.input, "protectionID"),
                        search |-> GetProp(a.input, "search")]),
              Field("count"))

\* the crypto methods
CryptoCall(o, a, base) ==
  CASE o = "cryptoEncrypt" ->
         Send("POST", NewURL(cryptoPath \o <<"/", "encrypt">>, base),
              MapItems(a.input,
                       LAMBDA v :
                         JSObject([key_id |-> GetProp(v, "keyID"),
                                   mode |-> GetProp(v, "mode"),
                                   plaintexts |-> GetProp(v, "plaintexts")])),
              Field("ciphertexts"))
    [] o = "cryptoDecrypt" ->
         Send("POST", NewURL(cryptoPath \o <<"/", "decrypt">>, base), a.input,
              Field("plaintexts"))
    [] o = "cryptoHMAC" ->
         Send("POST", NewURL(cryptoPath \o <<"/", "hmac">>, base),
              MapItems(a.input,
                       LAMBDA v : JSObject([key_id |-> GetProp(v, "keyID"),
                                            mode |-> GetProp(v, "mode"),
                                            values |-> GetProp(v, "values")])),
              Field("hashes"))
    [] o = "cryptoEqual" ->
         Send("POST", NewURL(cryptoPath \o <<"/", "equal">>, base), a.input,
              Field("result"))
    [] o = "cryptoSign" ->
         Send("POST", NewURL(cryptoPath \o <<"/", "sign">>, base),
              MapItems(a.input,
                       LAMBDA v : JSObject([key_id |-> GetProp(v, "keyID"),
                                            values |-> GetProp(v, "values")])),
              Field("signatures"))
    [] o = "cryptoVerify" ->
         Send("POST", NewURL(cryptoPath \o <<"/", "verify">>, base), a.input,
              Field("result"))

\* the methods of the batched revisions that reshape their input with
\* input.map
MappedOps ==
  {"vaultStore", "vaultGet", "vaultUpdate", "vaultDelete",
   "protectionTokenize", "protectionSeal", "protectionOpen",
   "cryptoEncrypt", "cryptoHMAC", "cryptoSign"}

\* the error of input.map(...) for an input that has no map method
MapTypeError ==
  [name |-> "TypeError",
   message |-> <<"input.map is not a function">>,
   site |-> "method",
   response |-> JSUndefined]

\* the part of a method that runs before its await: the request it hands to
\* #request, or the error it throws first
MethodCall(r, o, a, base) ==
  IF r \in BatchedRevisions /\ o \in MappedOps /\ a.input.t # "array"
  THEN [throws |-> TRUE, error |-> MapTypeError]
  ELSE
  CASE o \in {"secureProtectionInit", "secureProtectionCommit",
              "secureVaultInit"} -> SecureCall(o, a, base)
    [] o = "privacyProxyRequest" -> PrivacyProxyRequestCall(a, base)
    [] o = "privacyProxy" -> PrivacyProxyCall(a, base)
    [] o \in CryptoOps -> CryptoCall(o, a, base)
    [] OTHER -> IF r \in BatchedRevisions
                THEN BatchedCall(r, o, a, base)
                ELSE PathParamCall(FlatName(o), a, base)

\* the error of `const { field } = value` for a null or undefined value
DestructureError(field, value) ==
  [name |-> "TypeError",
   message |-> <<"Cannot destructure property '", field, "' of ">>
                 \o StringOf(value),
   site |-> "method",
   response |-> JSUndefined]

\* a method that answers a failure of #request with an empty result
MethodResult_Fallback(unwrap, result) ==
  IF result.settled = "rejected" THEN Fulfilled(JSUndefined)
  ELSE CASE unwrap.kind = "void" -> Fulfilled(JSUndefined)
         [] unwrap.kind = "whole" -> result
         [] OTHER ->
              IF result.value.t \in {"undefined", "null"}
              THEN Rejected(DestructureError(unwrap.field, result.value))
              ELSE IF unwrap.kind = "credential"
              THEN Fulfilled(JSObject([credential |->
                                         GetProp(result.value, "credential")]))
              ELSE Fulfilled(GetProp(result.value, unwrap.field))

\* an init method that hands the whole response body to the caller
MethodResult_WholeBody(unwrap, result) ==
  IF result.settled = "rejected" THEN result
  ELSE CASE unwrap.kind = "void" -> Fulfilled(JSUndefined)
         [] unwrap.kind \in {"whole", "credential"} -> result
         [] OTHER ->
              IF result.value.t \in {"undefined", "null"}
              THEN Rejected(DestructureError(unwrap.field, result.value))
              ELSE Fulfilled(GetProp(result.value, unwrap.field))

\* a method that fails when the body lacks the field it unwraps
MethodResult_MissingFieldThrows(unwrap, result) ==
  IF result.settled = "rejected" THEN result
  ELSE CASE unwrap.kind = "void" -> Fulfilled(JSUndefined)
         [] unwrap.kind = "whole" -> result
         [] OTHER ->
              IF \/ result.value.t \in {"undefined", "null"}
                 \/ GetProp(result.value, unwrap.field).t = "undefined"
              THEN Rejected(DestructureError(unwrap.field, result.value))
              ELSE IF unwrap.kind = "credential"
              THEN Fulfilled(JSObject([credential |->
                                         GetProp(result.value, "credential")]))
              ELSE Fulfilled(GetProp(result.value, unwrap.field))

\* the part of a method that runs after its await of #request
MethodResult(unwrap, result) ==
  IF result.settled = "rejected" THEN result
  ELSE CASE unwrap.kind = "void" -> Fulfilled(JSUndefined)
         [] unwrap.kind = "whole" -> result
         [] OTHER ->
              IF result.value.t \in {"undefined", "null"}
              THEN Rejected(DestructureError(unwrap.field, result.value))
              ELSE IF unwrap.kind = "credential"
              THEN Fulfilled(JSObject([credential |->
                                         GetProp(result.value, "credential")]))
              ELSE Fulfilled(GetProp(result.value, unwrap.field))

----------------------------------------------------------------------------
(* Inputs of the model *)

EmptyObject == JSObject([n \in {} |-> JSUndefined])

Items == JSArray(<<Str("a"), Str("b")>>)

\* the arguments a caller passes to a path-parameter method
PathParamArgs(o) ==
  CASE o = "vaultStore" -> {[vaultId |-> "v1", data |-> Items]}
    [] o = "vaultFetch" ->
         {[vaultId |-> "v1", search |-> <<"x">>, size |-> JSUndefined,
           after |-> JSUndefined],
          [vaultId |-> "v1", search |-> <<"x">>, size |-> JSNumber(10),
           after |-> Str("cursor1")]}
    [] o = "vaultGet" -> {[vaultId |-> "v1", ids |-> Items]}
    [] o = "vaultUpdate" ->
         {[vaultId |-> "v1", token |-> "t1",
           data |-> JSObject([name |-> Str("a")])]}
    [] o = "vaultDelete" -> {[vaultId |-> "v1", token |-> "t1"]}
    [] o \in {"protectionSeal", "protectionOpen"} ->
         {[protectionId |-> "p1", ids |-> Items]}

SecureArgs(o) ==
  IF o = "secureProtectionCommit"
  THEN {[credential |-> Str("c1")]}
  ELSE {[operation |-> Str("READ"), ids |-> JSArray(<<Str("p1")>>),
         ttl |-> JSNumber(5)]}

PrivacyProxyRequestArgs ==
  {[type |-> Str(t), url |-> Str("https://example.test/:_phone"),
    method |-> Str("post"), common |-> JSUndefined, options |-> o] :
     t \in {"json", "xml"},
     o \in {JSUndefined, JSObject([rootTag |-> Str("data")])}}

PrivacyProxyArgs ==
  {JSObject([type |-> Str(t), url |-> Str("https://example.test/:_phone"),
             method |-> Str("post")] @@ x) :
     t \in {"json", "xml"},
     x \in {[n \in {} |-> JSUndefined], [rootTag |-> Str("data")]}}

\* the arguments a caller passes to a batched method
BatchedArgs(o) ==
  CASE o \in {"vaultStore", "vaultUpdate"} ->
         {[input |-> JSArray(<<JSObject([vaultID |-> Str("v1"),
                                         values |-> Items])>>)]}
    [] o \in {"vaultGet", "vaultDelete"} ->
         {[input |-> JSArray(<<JSObject([vaultID |-> Str("v1"),
                                         tokens |-> Items])>>)]}
    [] o = "vaultFetch" ->
         {[input |-> JSObject([vaultID |-> Str("v1"), search |-> Str("x")])],
          [input |-> JSObject([vaultID |-> Str("v1"), search |-> Str("x"),
                               size |-> JSNumber(10),
                               after |-> Str("cursor1")])]}
    [] o = "vaultCount" ->
         {[input |-> JSObject([vaultID |-> Str("v1"), search |-> Str("x")])]}
    [] o = "protectionTokenize" ->
         {[input |-> JSArray(<<JSObject([protectionID |-> Str("p1"),
                                         values |-> Items])>>)]}
    [] o = "protectionSeal" ->
         {[input |-> JSArray(<<JSObject([protectionID |-> Str("p1"),
                                         primaryKeys |-> Items])>>)]}
    [] o = "protectionOpen" ->
         {[input |-> JSArray(<<JSObject([protectionID |-> Str("p1"),
                                         tokens |-> Items])>>)]}
    [] o \in {"protectionFetch", "protectionCount"} ->
         {[input |-> JSObject([protectionID |-> Str("p1"),
                               search |-> Str("x")])]}

CryptoArgs(o) ==
  CASE o = "cryptoEncrypt" ->
         {[input |-> JSArray(<<JSObject([keyID |-> Str("k1"),
                                         mode |-> Str("AES_GCM"),
                                         plaintexts |-> Items])>>)]}
    [] o = "cryptoHMAC" ->
         {[input |-> JSArray(<<JSObject([keyID |-> Str("k1"),
                                         mode |-> Str("SHA256"),
                                         values |-> Items])>>)]}
    [] o = "cryptoSign" ->
         {[input |-> JSArray(<<JSObject([keyID |-> Str("k1"),
                                         values |-> Items])>>)]}
    [] OTHER -> {[input |-> Items]}

Args(r, o) ==
  CASE o \in {"secureProtectionInit", "secureProtectionCommit",
              "secureVaultInit"} -> SecureArgs(o)
    [] o = "privacyProxyRequest" -> PrivacyProxyRequestArgs
    [] o = "privacyProxy" -> PrivacyProxyArgs
    [] o \in CryptoOps -> CryptoArgs(o)
    [] OTHER -> IF r \in BatchedRevisions THEN BatchedArgs(o)
                ELSE PathParamArgs(FlatName(o))

\* the text of version major.minor.patch with an optional prerelease tag
VersionString(major, minor, patch, pre) ==
  <<"v">> \o NatToString(major) \o <<".">> \o NatToString(minor)
    \o <<".">> \o NatToString(patch) \o pre

\* the values a server may put in the x-kastela-version header
VersionHeaders ==
  {JSString(VersionString(major, minor, patch, <<>>)) :
     major \in 0..MaxMajor, minor \in 0..MaxMinor, patch \in 0..MaxPatch}
  \cup {JSString(VersionString(major, minor, 0, <<"-", "rc">>)) :
          major \in 0..MaxMajor, minor \in 0..MaxMinor}
  \cup {JSString(<<"0", ".", "2", ".", "0">>), JSString(<<"v", "0", ".", "2">>),
        JSString(<<"v", "0", ".", "0">>), Str("latest"), EmptyString}

\* response headers: with a version header, or without one
Headers ==
  {JSObject([n \in {"x-kastela-version"} |-> v]) : v \in VersionHeaders}
  \cup {EmptyObject}

\* a success body that carries every envelope field
Envelope ==
  JSObject([ids |-> Items, data |-> Items, tokens |-> Items, values |-> Items,
            credential |-> Str("c1"), count |-> JSNumber(2)])

\* the parsed bodies a response may carry
Bodies ==
  {JSNull, EmptyString, JSNumber(0), JSBoolean(FALSE), Str("Y"),
   JSObject([error |-> Str("X")]), JSObject([error |-> EmptyString]),
   JSObject([error |-> JSNumber(404)]), JSObject([message |-> Str("oops")]),
   Envelope, Items}

Statuses == {200, 201, 500}

\* the messages of the faults that carry no response
FaultMessages == {<<"connect ECONNREFUSED 127.0.0.1:3100">>}

----------------------------------------------------------------------------
(* The state machine: one client, a call in the foreground and a second    *)
(* call that may be in progress at the same time                            *)

NoRequest == [method |-> "", url |-> <<>>, data |-> JSUndefined]

\* the second call, before it is made
NoCall ==
  [pc |-> "idle", op |-> "", args |-> <<>>, request |-> NoRequest,
   axiosResult |-> Pending, dispatched |-> Pending, outcome |-> Pending]

\* an example server that is handling no request
IdleServer ==
  [pc |-> "idle", name |-> "", req |-> <<>>, err |-> JSUndefined,
   responses |-> <<>>]

Idle ==
  /\ pc = "idle"
  /\ op = ""
  /\ args = <<>>
  /\ request = NoRequest
  /\ axiosResult = Pending
  /\ dispatched = Pending
  /\ outcome = Pending
  /\ attempts = 0
  /\ dispatches = 0
  /\ settles = 0

\* the state after the constructor
Init ==
  /\ rev \in Revisions
  /\ config \in Configurations
  /\ Idle
  /\ second = NoCall
  /\ server = IdleServer

\* a method that keeps the URL it built as the client's server URL
Invoke_KeepsUrl(o, a) ==
  /\ pc = "idle"
  /\ op' = o
  /\ args' = a
  /\ LET call == MethodCall(rev, o, a, config.kastelaUrl)
     IN IF call.throws
        THEN /\ outcome' = Rejected(call.error)
             /\ settles' = settles + 1
             /\ pc' = "settled"
             /\ UNCHANGED <<request, attempts, dispatches, config>>
        ELSE /\ request' = [method |-> call.method,
                            url |-> URLToString(call.url),
                            data |-> call.body]
             /\ config' = [config EXCEPT !.kastelaUrl = URLToString(call.url)]
             /\ dispatches' = dispatches + 1
             /\ attempts' = attempts + 1
             /\ pc' = "inflight"
             /\ UNCHANGED <<outcome, settles>>
  /\ UNCHANGED <<rev, server, second, axiosResult, dispatched>>

\* the caller calls a method: it runs up to the await of the axios promise,
\* or throws before calling #request
Invoke(o, a) ==
  /\ pc = "idle"
  /\ op' = o
  /\ args' = a
  /\ LET call == MethodCall(rev, o, a, config.kastelaUrl)
     IN IF call.throws
        THEN /\ outcome' = Rejected(call.error)
             /\ settles' = settles + 1
             /\ pc' = "settled"
             /\ UNCHANGED <<request, attempts, dispatches>>
        ELSE /\ request' = [method |-> call.method,
                            url |-> URLToString(call.url),
                            data |-> call.body]
             /\ dispatches' = dispatches + 1
             /\ attempts' = attempts + 1
             /\ pc' = "inflight"
             /\ UNCHANGED <<outcome, settles>>
  /\ UNCHANGED <<rev, server, config, second, axiosResult, dispatched>>

\* the server answers the request in flight
TransportRespond(status, data, headers) ==
  /\ pc = "inflight"
  /\ axiosResult' = AxiosSettle(Response(status, data, headers))
  /\ pc' = "responded"
  /\ UNCHANGED <<rev, server, config, second, op, args, request, dispatched,
                 outcome, attempts, dispatches, settles>>

\* the request in flight fails without a response
TransportFault(message) ==
  /\ pc = "inflight"
  /\ axiosResult' = AxiosFault(message)
  /\ pc' = "responded"
  /\ UNCHANGED <<rev, server, config, second, op, args, request, dispatched,
                 outcome, attempts, dispatches, settles>>

\* a #request that, after a fault without a response, waits for something
\* that never comes
RequestResume_WaitsAfterFault ==
  /\ pc = "responded"
  /\ ~(axiosResult.settled = "rejected"
        /\ axiosResult.error.response.t = "undefined")
  /\ dispatched' = RequestResult(rev, axiosResult)
  /\ pc' = "dispatched"
  /\ UNCHANGED <<rev, server, config, second, op, args, request, outcome,
                 dispatches, settles, attempts, axiosResult>>

\* #request resumes after its await: it settles, or awaits the transport
\* again
RequestResume ==
  /\ pc = "responded"
  /\ LET result == RequestResult(rev, axiosResult)
     IN IF result.settled = "pending"
        THEN /\ attempts' = attempts + 1
             /\ axiosResult' = Pending
             /\ pc' = "inflight"
             /\ UNCHANGED dispatched
        ELSE /\ dispatched' = result
             /\ pc' = "dispatched"
             /\ UNCHANGED <<attempts, axiosResult>>
  /\ UNCHANGED <<rev, server, config, second, op, args, request, outcome,
                 dispatches, settles>>

\* the method resumes after its await of #request: it settles the call, or
\* awaits #request again
MethodResume ==
  /\ pc = "dispatched"
  /\ LET call == MethodCall(rev, op, args, config.kastelaUrl)
         result == MethodResult(call.unwrap, dispatched)
     IN IF result.settled = "pending"
        THEN /\ dispatches' = dispatches + 1
             /\ attempts' = attempts + 1
             /\ axiosResult' = Pending
             /\ dispatched' = Pending
             /\ pc' = "inflight"
             /\ UNCHANGED <<outcome, settles>>
        ELSE /\ outcome' = result
             /\ settles' = settles + 1
             /\ pc' = "settled"
             /\ UNCHANGED <<dispatches, attempts, axiosResult, dispatched>>
  /\ UNCHANGED <<rev, server, config, second, op, args, request>>

\* the caller has the result; the client is ready for the next call
Return ==
  /\ pc = "settled"
  /\ pc' = "idle"
  /\ op' = ""
  /\ args' = <<>>
  /\ request' = NoRequest
  /\ axiosResult' = Pending
  /\ dispatched' = Pending
  /\ outcome' = Pending
  /\ attempts' = 0
  /\ dispatches' = 0
  /\ settles' = 0
  /\ UNCHANGED <<rev, server, config, second>>

Next ==
  \/ \E o \in Methods(rev) : \E a \in Args(rev, o) : Invoke(o, a)
  \/ \E status \in Statuses, data \in Bodies, headers \in Headers :
       TransportRespond(status, data, headers)
  \/ \E message \in FaultMessages : TransportFault(message)
  \/ RequestResume
  \/ MethodResume
  \/ Return

Spec == Init /\ [][Next]_vars

----------------------------------------------------------------------------
(* Vocabulary of the properties *)

\* the call in progress got a response / a 2xx response / a non-2xx response
\* / a fault without a response
Answered == pc \in {"responded", "dispatched", "settled"} /\ attempts > 0
Got2xx == Answered /\ axiosResult.settled = "fulfilled"
GotNon2xx ==
  /\ Answered
  /\ axiosResult.settled = "rejected"
  /\ axiosResult.error.response.t = "response"
GotFault ==
  /\ Answered
  /\ axiosResult.settled = "rejected"
  /\ axiosResult.error.response.t = "undefined"

\* #request has settled for the call in progress
Dispatched == pc \in {"dispatched", "settled"} /\ attempts > 0

\* the response of a call that got one
TheResponse ==
  IF axiosResult.settled = "fulfilled" THEN axiosResult.value
  ELSE axiosResult.error.response

VersionHeader == GetProp(TheResponse.headers, "x-kastela-version")

\* the method threw before it called #request
ThrewLocally == pc = "settled" /\ dispatches = 0

\* the version lines a revision may be held to: its own, or for the revision
\* without a constant, any line of the other revisions
ExpectedLines(r) ==
  IF HasVersionGuard(r) THEN {expectedKastelaVersion(r)}
  ELSE {expectedKastelaVersion(g) : g \in GuardedRevisions}

\* h is a release major.minor.patch of the line `v<major>.<minor>`
InLine(line, h) ==
  /\ h.t = "string"
  /\ ParseSemVer(h.s).ok
  /\ Len(ParseSemVer(h.s).prerelease) = 0
  /\ LET nums == SplitOn(StripV(line), ".")
     IN /\ ParseSemVer(h.s).major = ParseNat(nums[1])
        /\ ParseSemVer(h.s).minor = ParseNat(nums[2])

\* h is exactly version 0.0.0
IsSentinel(h) ==
  /\ h.t = "string"
  /\ ParseSemVer(h.s) = SemVer(0, 0, 0, <<>>)

\* the header is one the Version Guard of revision r is meant to accept
Compatible(r, h) == IsSentinel(h) \/ \E line \in ExpectedLines(r) : InLine(line, h)

MismatchPrefix == <<"kastela server version mismatch, expected: ">>

----------------------------------------------------------------------------
(* C1..C10: the dispatcher contract *)

\* C1: a call resolves with a value only if its response was 2xx and the
\* x-kastela-version header is one the Version Guard accepts (a release of
\* the expected line, or exactly v0.0.0), in every revision.
C1_ValueOnlyAfterVersionGuard ==
  (pc = "settled" /\ outcome.settled = "fulfilled")
    => (Got2xx /\ Compatible(rev, VersionHeader))

\* C2: on a 2xx response whose version header is a release of the expected
\* line, or exactly v0.0.0, #request yields the parsed body unchanged.
C2_CompatibleYieldsBody ==
  (Got2xx /\ Dispatched /\ Compatible(rev, VersionHeader))
    => dispatched = Fulfilled(TheResponse.data)

C2_Witness ==
  /\ pc = "dispatched"
  /\ rev = "batched-v0.2"
  /\ Got2xx
  /\ VersionHeader = JSString(<<"v", "0", ".", "2", ".", "1">>)
  /\ dispatched = Fulfilled(Envelope)

\* C3: in a revision with an expected version, a 2xx response whose version
\* header is neither a release of the expected line nor v0.0.0 makes #request
\* throw the mismatch error, whose message contains the expected and the
\* actual version string; the body is not returned and the caller gets that
\* very error.
C3_MismatchThrows ==
  (/\ Got2xx
   /\ Dispatched
   /\ HasVersionGuard(rev)
   /\ VersionHeader.t = "string"
   /\ ~Compatible(rev, VersionHeader))
    => /\ dispatched.settled = "rejected"
       /\ dispatched.error.site = "guard"
       /\ Contains(dispatched.error.message, expectedKastelaVersion(rev))
       /\ Contains(dispatched.error.message, VersionHeader.s)
       /\ (pc = "settled" => outcome = dispatched)

C3_Witness ==
  /\ pc = "settled"
  /\ rev = "pathparam-v0.2"
  /\ Got2xx
  /\ VersionHeader = JSString(<<"v", "0", ".", "3", ".", "0">>)
  /\ TheResponse.data = Envelope
  /\ outcome.settled = "rejected"
  /\ outcome.error.message
       = MismatchPrefix \o <<"v", "0", ".", "2", ".x, actual: ",
                             "v", "0", ".", "3", ".", "0">>

\* C4: a 2xx response without an x-kastela-version header makes the call
\* fail, in every revision.
C4_MissingHeaderRejected ==
  (pc = "settled" /\ Got2xx /\ VersionHeader.t = "undefined")
    => outcome.settled = "rejected"

\* C5: a non-2xx response whose body is an object with a string error field X
\* makes the call throw an error whose message is exactly X.
C5_StructuredErrorMessage ==
  (/\ GotNon2xx
   /\ Dispatched
   /\ TheResponse.data.t = "object"
   /\ GetProp(TheResponse.data, "error").t = "string")
    => /\ dispatched.settled = "rejected"
       /\ dispatched.error.message = GetProp(TheResponse.data, "error").s
       /\ (pc = "settled" => outcome = dispatched)

C5_Witness ==
  /\ pc = "settled"
  /\ GotNon2xx
  /\ TheResponse.data = JSObject([error |-> Str("X")])
  /\ outcome.settled = "rejected"
  /\ outcome.error.message = <<"X">>

\* C6 as stated: a non-2xx response whose body is a plain string Y makes the
\* call throw an error whose message is Y.
C6_StringBodyMessage_Original ==
  (GotNon2xx /\ Dispatched /\ TheResponse.data.t = "string")
    => /\ dispatched.settled = "rejected"
       /\ dispatched.error.message = TheResponse.data.s

\* C6 amended: a non-2xx response whose body is a non-empty plain string Y
\* makes the call throw an error whose message is Y.
C6_NonEmptyStringBodyMessage ==
  (/\ GotNon2xx
   /\ Dispatched
   /\ TheResponse.data.t = "string"
   /\ Len(TheResponse.data.s) > 0)
    => /\ dispatched.settled = "rejected"
       /\ dispatched.error.message = TheResponse.data.s
       /\ (pc = "settled" => outcome = dispatched)

C6_Witness ==
  /\ pc = "settled"
  /\ GotNon2xx
  /\ TheResponse.data = Str("Y")
  /\ outcome.settled = "rejected"
  /\ outcome.error.message = <<"Y">>

\* C7: a fault that carries no response makes the call throw the fault
\* itself, message unchanged, whether or not the revision checks versions.
C7_FaultRethrown ==
  (GotFault /\ Dispatched)
    => /\ dispatched = axiosResult
       /\ dispatched.settled = "rejected"
       /\ dispatched.error.message \in FaultMessages
       /\ (pc = "settled" => outcome = axiosResult)

C7_Witness ==
  /\ pc = "settled"
  /\ HasVersionGuard(rev)
  /\ GotFault
  /\ outcome.settled = "rejected"
  /\ outcome.error.name = "AxiosError"
  /\ outcome.error.message = <<"connect ECONNREFUSED 127.0.0.1:3100">>

\* headers to compare with: none, the v0.0.0 every revision accepts, and
\* versions no revision accepts
C8_OtherHeaders ==
  {EmptyObject}
  \cup {JSObject([n \in {"x-kastela-version"} |-> JSString(v)]) :
          v \in {VersionString(0, 0, 0, <<>>), VersionString(0, 1, 0, <<>>),
                 VersionString(1, 2, 0, <<>>)}}

\* C8: after a non-2xx response or a fault the thrown error is never the
\* version-mismatch error, and its message is the same whatever version
\* header the response carries (compatible, incompatible or absent).
C8_GuardOnlyAfter2xx ==
  ((GotNon2xx \/ GotFault) /\ Dispatched)
    => /\ dispatched.settled = "rejected"
       /\ dispatched.error.site # "guard"
       /\ ~Contains(dispatched.error.message, MismatchPrefix)
       /\ GotNon2xx =>
            \A h \in C8_OtherHeaders :
              LET other == RequestResult(rev,
                             AxiosSettle(Response(TheResponse.status,
                                                  TheResponse.data, h)))
              IN /\ other.settled = "rejected"
                 /\ other.error.message = dispatched.error.message
                 /\ other.error.site = dispatched.error.site

C8_Witness ==
  /\ pc = "dispatched"
  /\ HasVersionGuard(rev)
  /\ GotNon2xx
  /\ VersionHeader = JSString(<<"v", "1", ".", "3", ".", "0">>)
  /\ TheResponse.headers \notin C8_OtherHeaders
  /\ TheResponse.data = JSObject([error |-> Str("X")])
  /\ dispatched.error.site = "normalizer"

\* C9: every failed call (fault, non-2xx response, version mismatch, local
\* validation failure) settles exactly once, as a rejection that carries the
\* very error #request or the validation threw, and never with a value.
C9_OneRejectionPerFailure ==
  /\ settles <= 1
  /\ pc = "settled" =>
       /\ settles = 1
       /\ outcome.settled \in {"fulfilled", "rejected"}
       /\ (GotNon2xx \/ GotFault) => dispatched.settled = "rejected"
       /\ dispatched.settled = "rejected" => outcome = dispatched
       /\ ThrewLocally =>
            /\ outcome.settled = "rejected"
            /\ outcome.error.site = "method"
            /\ dispatched = Pending
  /\ pc # "settled" => settles = 0 /\ outcome = Pending

C9_Witness ==
  /\ pc = "settled"
  /\ op = "vaultStore"
  /\ GotNon2xx
  /\ TheResponse.data = Str("Y")
  /\ outcome = dispatched
  /\ outcome.settled = "rejected"
  /\ settles = 1

\* C10: a call makes at most one #request call and #request makes exactly
\* one network attempt; no outcome of the attempt leads to another request,
\* and the transport is reached only through #request.
C10_OneAttemptPerCall ==
  /\ attempts = dispatches
  /\ dispatches <= 1
  /\ pc \in {"inflight", "responded", "dispatched"} => attempts = 1
  /\ pc = "settled" => attempts = (IF dispatched = Pending THEN 0 ELSE 1)
  /\ pc = "idle" => attempts = 0

C10_Witness ==
  /\ pc = "settled"
  /\ GotFault
  /\ attempts = 1
  /\ dispatches = 1

----------------------------------------------------------------------------
(* A second specification for the request and result shapes: the same      *)
(* actions, with many arguments and server URLs and few responses           *)

\* largest number of items in the list a caller passes to a batched method
MaxItems == 2

\* all lists of at most n elements of S
SeqsUpTo(S, n) == UNION {[1..k -> S] : k \in 0..n}

\* a server URL that is an origin, and one with a path of its own
ShapeConfigurations ==
  Configurations
  \cup {[kastelaUrl |-> <<"https://kastela.test:3100", "/gateway/">>,
         ca |-> "ca.crt", cert |-> "client.crt", key |-> "client.key"]}

\* identifiers that are a dot segment or a delimiter of the URL syntax
HostileIds == {"..", "/", "?", "#"}

\* pairs of identifiers: both plain, or one of the two hostile
IdPairs(first, second_) ==
  (first \X second_)
    \cup (HostileIds \X {CHOOSE t \in second_ : TRUE})
    \cup ({CHOOSE v \in first : TRUE} \X HostileIds)

ShapePathParamArgs(o) ==
  CASE o = "vaultStore" ->
         {[vaultId |-> v, data |-> Items] : v \in {"v1", "v2"} \cup HostileIds}
    [] o = "vaultFetch" ->
         {[vaultId |-> v, search |-> q, size |-> size, after |-> after] :
            v \in {"v1", "v2"}, q \in {<<"x">>, <<>>},
            size \in {JSUndefined, JSNumber(0), JSNaN, JSNumber(10)},
            after \in {JSUndefined, EmptyString, Str("cursor1")}}
    [] o = "vaultGet" ->
         {[vaultId |-> v, ids |-> Items] : v \in {"v1", "v2"}}
    [] o = "vaultUpdate" ->
         {[vaultId |-> p[1], token |-> p[2],
           data |-> JSObject([name |-> Str("a")])] :
            p \in IdPairs({"v1", "v2"}, {"t1", "t2"})}
    [] o = "vaultDelete" ->
         {[vaultId |-> p[1], token |-> p[2]] :
            p \in IdPairs({"v1", "v2"}, {"t1", "t2"})}
    [] o \in {"protectionSeal", "protectionOpen"} ->
         {[protectionId |-> q, ids |-> Items] :
            q \in {"p1", "p2"} \cup HostileIds}

ShapeSecureArgs(o) ==
  IF o = "secureProtectionCommit"
  THEN {[credential |-> Str(c)] : c \in {"c1", "c2"}}
  ELSE {[operation |-> Str(x), ids |-> JSArray(ids), ttl |-> JSNumber(ttl)] :
          x \in {"READ", "WRITE"},
          ids \in SeqsUpTo({Str("id1"), Str("id2")}, MaxItems),
          ttl \in {5, 60}}

ProxyCommon ==
  JSObject([protections |-> JSObject([p1 |-> JSArray(<<Str("phone")>>)]),
            vaults |-> JSObject(<<>>)])

ShapePrivacyProxyRequestArgs ==
  {[type |-> Str(t), url |-> Str("https://example.test/:_phone"),
    method |-> Str("post"), common |-> c, options |-> o] :
     t \in {"json", "xml"},
     c \in {JSUndefined, ProxyCommon},
     o \in {JSUndefined, EmptyObject,
            JSObject([rootTag |-> EmptyString]),
            JSObject([rootTag |-> Str("data")]),
            JSObject([headers |-> JSObject([accept |-> Str("text/xml")]),
                      body |-> JSObject([phone |-> Str("_phone")]),
                      rootTag |-> Str("data")])}}

ShapePrivacyProxyArgs ==
  {JSObject([type |-> Str(t), url |-> Str("https://example.test/:_phone"),
             method |-> Str("post")] @@ c @@ x) :
     t \in {"json", "xml"},
     c \in {[n \in {} |-> JSUndefined], [common |-> ProxyCommon]},
     x \in {[n \in {} |-> JSUndefined],
            [rootTag |-> EmptyString],
            [rootTag |-> Str("data")],
            [headers |-> JSObject([accept |-> Str("text/xml")]),
             body |-> JSObject([phone |-> Str("_phone")]),
             rootTag |-> Str("data")]}}

\* the items a caller may put in the list of a batched or crypto method
ShapeItems(o) ==
  CASE o \in {"vaultStore", "vaultUpdate"} ->
         {JSObject([vaultID |-> Str("v1"), values |-> Items]),
          JSObject([vaultID |-> Str("v2"), values |-> JSArray(<<>>)])}
    [] o \in {"vaultGet", "vaultDelete"} ->
         {JSObject([vaultID |-> Str("v1"), tokens |-> Items]),
          JSObject([vaultID |-> Str("v2"), tokens |-> JSArray(<<>>)])}
    [] o = "protectionTokenize" ->
         {JSObject([protectionID |-> Str("p1"), values |-> Items]),
          JSObject([protectionID |-> Str("p2"), values |-> JSArray(<<>>)])}
    [] o = "protectionSeal" ->
         {JSObject([protectionID |-> Str("p1"), primaryKeys |-> Items]),
          JSObject([protectionID |-> Str("p2"), primaryKeys |-> JSArray(<<>>)])}
    [] o = "protectionOpen" ->
         {JSObject([protectionID |-> Str("p1"), tokens |-> Items]),
          JSObject([protectionID |-> Str("p2"), tokens |-> JSArray(<<>>)])}
    [] o = "cryptoEncrypt" ->
         {JSObject([keyID |-> Str("k1"), mode |-> Str("AES_GCM"),
                    plaintexts |-> Items]),
          JSObject([keyID |-> Str("k2"), mode |-> Str("AES_GCM"),
                    plaintexts |-> JSArray(<<>>)])}
    [] o = "cryptoHMAC" ->
         {JSObject([keyID |-> Str("k1"), mode |-> Str("SHA256"),
                    values |-> Items]),
          JSObject([keyID |-> Str("k2"), mode |-> Str("SHA256"),
                    values |-> JSArray(<<>>)])}
    [] o = "cryptoSign" ->
         {JSObject([keyID |-> Str("k1"), values |-> Items]),
          JSObject([keyID |-> Str("k2"), values |-> JSArray(<<>>)])}
    [] OTHER -> {Str("a"), Str("b")}

\* the methods that take a list of items
ListOps ==
  {"vaultStore", "vaultGet", "vaultUpdate", "vaultDelete",
   "protectionTokenize", "protectionSeal", "protectionOpen"} \cup CryptoOps

ShapeBatchedArgs(o) ==
  CASE o \in ListOps ->
         {[input |-> JSArray(items)] : items \in SeqsUpTo(ShapeItems(o), MaxItems)}
           \cup {[input |-> item] : item \in ShapeItems(o)}
    [] o = "vaultFetch" ->
         {[input |-> JSObject([vaultID |-> Str("v1"), search |-> q]
                                @@ size @@ after)] :
            q \in {Str("x"), EmptyString},
            size \in {[n \in {} |-> JSUndefined], [size |-> JSNumber(0)],
                      [size |-> JSNaN], [size |-> JSNumber(10)]},
            after \in {[n \in {} |-> JSUndefined], [after |-> EmptyString],
                       [after |-> Str("cursor1")]}}
    [] o = "vaultCount" ->
         {[input |-> JSObject([vaultID |-> Str("v1"), search |-> Str("x")])]}
    [] o \in {"protectionFetch", "protectionCount"} ->
         {[input |-> JSObject([protectionID |-> Str("p1"),
                               search |-> Str("x")])]}

ShapeArgs(r, o) ==
  CASE o \in {"secureProtectionInit", "secureProtectionCommit",
              "secureVaultInit"} -> ShapeSecureArgs(o)
    [] o = "privacyProxyRequest" -> ShapePrivacyProxyRequestArgs
    [] o = "privacyProxy" -> ShapePrivacyProxyArgs
    [] o \in CryptoOps -> ShapeBatchedArgs(o)
    [] OTHER -> IF r \in BatchedRevisions THEN ShapeBatchedArgs(o)
                ELSE ShapePathParamArgs(FlatName(o))

\* a success body whose envelope fields all differ, with a field no method
\* reads
ShapeEnvelope ==
  JSObject([ids |-> JSArray(<<Str("i1")>>), data |-> JSArray(<<Str("d1")>>),
            tokens |-> JSArray(<<Str("t1"), Str("t2")>>),
            values |-> JSArray(<<Str("w1")>>),
            credential |-> Str("c9"), count |-> JSNumber(2),
            primary_keys |-> JSArray(<<Str("k1")>>),
            ciphertexts |-> JSArray(<<Str("x1")>>),
            plaintexts |-> JSArray(<<Str("y1")>>),
            hashes |-> JSArray(<<Str("h1")>>),
            signatures |-> JSArray(<<Str("s1")>>),
            result |-> JSArray(<<JSBoolean(TRUE)>>),
            expires |-> JSNumber(60)])

ShapeBodies ==
  {ShapeEnvelope, JSObject([error |-> Str("X")]), JSNull, Str("OK")}

ShapeStatuses == {200, 500}

\* a version every guarded revision accepts, and one only v0.2 clients accept
ShapeHeaders ==
  {JSObject([n \in {"x-kastela-version"} |-> JSString(VersionString(0, m, p, <<>>))]) :
     <<m, p>> \in {<<0, 0>>, <<2, 1>>}}

ShapeInit ==
  /\ rev \in Revisions
  /\ config \in ShapeConfigurations
  /\ Idle
  /\ second = NoCall
  /\ server = IdleServer

ShapeNext ==
  \/ \E o \in Methods(rev) : \E a \in ShapeArgs(rev, o) : Invoke(o, a)
  \/ \E status \in ShapeStatuses, data \in ShapeBodies,
        headers \in ShapeHeaders : TransportRespond(status, data, headers)
  \/ \E message \in FaultMessages : TransportFault(message)
  \/ RequestResume
  \/ MethodResume
  \/ Return

SpecShape == ShapeInit /\ [][ShapeNext]_vars

----------------------------------------------------------------------------
(* Vocabulary of the proxy claims *)

\* the call in progress is a call of the generic proxy operation
ProxyCalled == pc # "idle" /\ op \in {"privacyProxyRequest", "privacyProxy"}

\* the type and the root tag the caller gave
ProxyType ==
  IF op = "privacyProxyRequest" THEN args.type ELSE GetProp(args, "type")
ProxyRootTag ==
  IF op = "privacyProxyRequest"
  THEN IF args.options.t = "undefined" THEN JSUndefined
       ELSE GetProp(args.options, "rootTag")
  ELSE GetProp(args, "rootTag")

\* xml was asked for and the root tag is absent or empty
XmlWithoutRootTag ==
  ProxyType = Str("xml") /\ ProxyRootTag \in {JSUndefined, EmptyString}

----------------------------------------------------------------------------
\* C11: a proxy call with type "xml" and no root tag (absent or empty) is
\* rejected with "rootTag is required for xml" and no request ever leaves the
\* client; every other proxy call (type "json", or "xml" with a non-empty
\* root tag) dispatches exactly one request.
C11_RootTagRequiredBeforeRequest ==
  ProxyCalled =>
    IF XmlWithoutRootTag
    THEN /\ pc = "settled"
         /\ outcome.settled = "rejected"
         /\ outcome.error.message = <<"rootTag is required for xml">>
         /\ attempts = 0
         /\ dispatches = 0
         /\ request = NoRequest
    ELSE /\ attempts = 1
         /\ dispatches = 1
         /\ request.method = "POST"

\* an xml call with an empty root tag was rejected without a request
C11_Witness ==
  /\ ProxyCalled
  /\ ProxyType = Str("xml")
  /\ ProxyRootTag = EmptyString
  /\ pc = "settled"
  /\ outcome.settled = "rejected"
  /\ attempts = 0

----------------------------------------------------------------------------
(* Vocabulary of the request and result shapes *)

\* the call in progress has handed a request to the transport
Sent == pc \in {"inflight", "responded", "dispatched", "settled"} /\ dispatches > 0

\* the call in progress is a call of method o of a batched revision
BatchedCalled(o) == rev \in BatchedRevisions /\ op = o /\ Sent

\* #request returned the body of the response to the method, and the body is
\* an object
ReturnedObject ==
  /\ pc = "settled"
  /\ dispatched.settled = "fulfilled"
  /\ axiosResult.settled = "fulfilled"
  /\ axiosResult.value.data.t = "object"

\* the body of the success response
SuccessBody == axiosResult.value.data

----------------------------------------------------------------------------
\* C12: vaultStore of the batched revisions sends each input item
\* {vaultID: v, values: xs} as {vault_id: v, values: xs}: the values are
\* untouched and no camelCase key is left in the body; a success response
\* {tokens: ts} is returned to the caller as ts.
C12_VaultStoreCasing ==
  BatchedCalled("vaultStore") =>
    /\ request.data.t = "array"
    /\ Len(request.data.a) = Len(args.input.a)
    /\ \A i \in 1..Len(args.input.a) :
         /\ request.data.a[i].t = "object"
         /\ DOMAIN request.data.a[i].f = {"vault_id", "values"}
         /\ request.data.a[i].f.vault_id = args.input.a[i].f.vaultID
         /\ request.data.a[i].f.values = args.input.a[i].f.values
    /\ (ReturnedObject /\ "tokens" \in DOMAIN SuccessBody.f
          => outcome = Fulfilled(SuccessBody.f.tokens))

\* a vaultStore of two items came back with the tokens of the response
C12_Witness ==
  /\ BatchedCalled("vaultStore")
  /\ Len(args.input.a) = 2
  /\ ReturnedObject
  /\ outcome = Fulfilled(JSArray(<<Str("t1"), Str("t2")>>))

----------------------------------------------------------------------------
\* the call in progress is a call of method o of a path-parameter revision
PathParamCalled(o) == rev \in PathParamRevisions /\ FlatName(op) = o /\ Sent

\* the caller gave size 10 and after "cursor1" / gave neither
FetchPaged(size, after) == size = JSNumber(10) /\ after = Str("cursor1")
FetchUnpaged(size, after) == size = JSUndefined /\ after = JSUndefined

\* C13: a vault search for "x" with size 10 and after "cursor1" carries
\* exactly search=x, size=10 and after=cursor1: as the query string, in that
\* order, in the path-parameter revisions, and as body fields in the batched
\* revisions; when size and after are not given, neither key is in the
\* request.
C13_SearchPagination ==
  /\ PathParamCalled("vaultFetch") /\ args.search = <<"x">> =>
       LET url == Origin(config.kastelaUrl) \o <<"/", "api", "/", "vault", "/", args.vaultId>>
       IN /\ FetchPaged(args.size, args.after) =>
               request.url = url \o <<"?", "search", "=", "x",
                                      "&", "size", "=", "1", "0",
                                      "&", "after", "=", "cursor1">>
          /\ FetchUnpaged(args.size, args.after) =>
               request.url = url \o <<"?", "search", "=", "x">>
          /\ request.data = JSUndefined
  /\ BatchedCalled("vaultFetch") /\ GetProp(args.input, "search") = Str("x") =>
       LET size == GetProp(args.input, "size")
           after == GetProp(args.input, "after")
           body == request.data
       IN /\ body.t = "object"
          /\ body.f.search = Str("x")
          /\ FetchPaged(size, after) =>
               /\ DOMAIN body.f = {"vault_id", "search", "size", "after"}
               /\ body.f.size = JSNumber(10)
               /\ body.f.after = Str("cursor1")
          /\ FetchUnpaged(size, after) =>
               DOMAIN body.f = {"vault_id", "search"}
          /\ ~Contains(request.url, <<"?">>)

\* a paged search is in flight in a path-parameter revision
C13_Witness ==
  /\ PathParamCalled("vaultFetch")
  /\ FetchPaged(args.size, args.after)
  /\ Contains(request.url, <<"after">>)

----------------------------------------------------------------------------
\* the body of the request in flight, as it is on the wire
Wire == WireBody(request.data)

ProxyTopLevel == {"type", "url", "method", "common", "options"}
ProxyFlat ==
  {"type", "url", "method", "headers", "params", "body", "query", "common",
   "rootTag"}

\* the body has the nested shape: type, url, method, common and options, the
\* request details inside options as the caller gave them, and the default
\* values where the caller gave none
ProxyNested(type, url, method, common, options) ==
  /\ Wire.t = "object"
  /\ DOMAIN Wire.f = ProxyTopLevel
  /\ Wire.f.type = type /\ Wire.f.url = url /\ Wire.f.method = method
  /\ IF common = JSUndefined
     THEN /\ Wire.f.common.t = "object"
          /\ DOMAIN Wire.f.common.f = {"protections", "vaults"}
          /\ \A n \in {"protections", "vaults"} :
               /\ Wire.f.common.f[n].t = "object"
               /\ DOMAIN Wire.f.common.f[n].f = {}
     ELSE Wire.f.common = common
  /\ IF options = JSUndefined
     THEN Wire.f.options.t = "object" /\ DOMAIN Wire.f.options.f = {}
     ELSE /\ Wire.f.options.t = "object"
          /\ DOMAIN Wire.f.options.f = DOMAIN options.f
          /\ \A n \in DOMAIN options.f : Wire.f.options.f[n] = options.f[n]

\* C14 as stated: in every revision with a generic proxy operation the body
\* of POST /api/proxy has exactly the fields type, url, method, common and
\* options, the request details nested in options, and the default values
\* common = {protections: {}, vaults: {}} and options = {} when omitted.
C14_ProxyBodyNested_Original ==
  ProxyCalled /\ Sent =>
    IF op = "privacyProxyRequest"
    THEN ProxyNested(args.type, args.url, args.method, args.common,
                     args.options)
    ELSE ProxyNested(GetProp(args, "type"), GetProp(args, "url"),
                     GetProp(args, "method"), GetProp(args, "common"),
                     GetProp(args, "options"))

\* C14, amended: privacyProxyRequest sends the nested body with its default
\* values; privacyProxy of the v0.0 revision sends the caller's type, url,
\* method, headers, params, body, query, common and rootTag as top-level
\* fields, with no options field and no default for an omitted field.
C14_ProxyBodyShape ==
  /\ op = "privacyProxyRequest" /\ Sent =>
       /\ ProxyNested(args.type, args.url, args.method, args.common,
                      args.options)
       /\ request.method = "POST"
       /\ request.url = Origin(config.kastelaUrl) \o <<"/", "api", "/", "proxy">>
  /\ op = "privacyProxy" /\ Sent =>
       /\ Wire.t = "object"
       /\ DOMAIN Wire.f = {n \in ProxyFlat : GetProp(args, n) # JSUndefined}
       /\ \A n \in DOMAIN Wire.f : Wire.f[n] = GetProp(args, n)
       /\ request.method = "POST"
       /\ request.url = Origin(config.kastelaUrl) \o <<"/", "api", "/", "proxy">>

\* a privacyProxyRequest without common and options is in flight, with both
\* fields in its body
C14_Witness ==
  /\ op = "privacyProxyRequest" /\ Sent
  /\ args.common = JSUndefined /\ args.options = JSUndefined
  /\ {"common", "options"} \subseteq DOMAIN Wire.f

----------------------------------------------------------------------------
\* the body of an init request: the operation, the identifiers under idsName
\* and the ttl, as the caller gave them
InitBody(idsName) ==
  /\ Wire.t = "object"
  /\ DOMAIN Wire.f = {"operation", idsName, "ttl"}
  /\ Wire.f.operation = args.operation
  /\ Wire.f[idsName] = args.ids
  /\ Wire.f.ttl = args.ttl

\* C15: secureProtectionInit(operation, ids, ttl) sends {operation,
\* protection_ids: ids, ttl} and secureVaultInit sends {operation,
\* vault_ids: ids, ttl}; each returns an object that holds only the
\* credential field of the response, dropping every other field;
\* secureProtectionCommit(credential) sends {credential} and resolves with no
\* value, whatever the success body is.
C15_SecureCredentialShapes ==
  /\ op = "secureProtectionInit" /\ Sent => InitBody("protection_ids")
  /\ op = "secureVaultInit" /\ Sent => InitBody("vault_ids")
  /\ op \in {"secureProtectionInit", "secureVaultInit"} /\ ReturnedObject =>
       /\ outcome.settled = "fulfilled"
       /\ outcome.value.t = "object"
       /\ DOMAIN outcome.value.f = {"credential"}
       /\ outcome.value.f.credential = GetProp(SuccessBody, "credential")
  /\ op = "secureProtectionCommit" /\ Sent =>
       /\ Wire.t = "object"
       /\ DOMAIN Wire.f = {"credential"}
       /\ Wire.f.credential = args.credential
       /\ (pc = "settled" /\ dispatched.settled = "fulfilled"
             => outcome = Fulfilled(JSUndefined))

\* a secureProtectionInit returned the credential of a response that carried
\* other fields too
C15_Witness ==
  /\ op = "secureProtectionInit"
  /\ ReturnedObject
  /\ Cardinality(DOMAIN SuccessBody.f) > 1
  /\ outcome = Fulfilled(JSObject([credential |-> Str("c9")]))

----------------------------------------------------------------------------
\* the request goes to the given path of the configured server, with or
\* without a query string after it
AtPath(path) == request.url = Origin(config.kastelaUrl) \o path
AtPathWithQuery(path) ==
  LET prefix == Origin(config.kastelaUrl) \o path \o <<"?">>
  IN /\ Len(request.url) > Len(prefix)
     /\ SubSeq(request.url, 1, Len(prefix)) = prefix

\* the identifiers the caller gave are plain names
PlainIdsGiven ==
  \A n \in DOMAIN args \cap {"vaultId", "token", "protectionId"} :
    args[n] \notin HostileIds

\* method o of a path-parameter revision was called with plain identifiers
PlainCalled(o) == PathParamCalled(o) /\ PlainIdsGiven

\* C16: the path-parameter revisions use exactly these methods and paths,
\* for identifiers that are plain names,
\* resolved against the configured server URL: vaultStore POST
\* /api/vault/{vaultId}/store, vaultFetch GET /api/vault/{vaultId} without a
\* body, vaultGet POST /api/vault/{vaultId}/get, vaultUpdate PUT
\* /api/vault/{vaultId}/{token}, vaultDelete DELETE /api/vault/{vaultId}/{token}
\* without a body, protectionSeal POST /api/protection/{protectionId}/seal,
\* protectionOpen POST /api/protection/{protectionId}/open.
C16_PathTemplates ==
  /\ PlainCalled("vaultStore") =>
       /\ request.method = "POST"
       /\ AtPath(<<"/", "api", "/", "vault", "/", args.vaultId, "/", "store">>)
  /\ PlainCalled("vaultFetch") =>
       /\ request.method = "GET"
       /\ AtPathWithQuery(<<"/", "api", "/", "vault", "/", args.vaultId>>)
       /\ request.data = JSUndefined
  /\ PlainCalled("vaultGet") =>
       /\ request.method = "POST"
       /\ AtPath(<<"/", "api", "/", "vault", "/", args.vaultId, "/", "get">>)
  /\ PlainCalled("vaultUpdate") =>
       /\ request.method = "PUT"
       /\ AtPath(<<"/", "api", "/", "vault", "/", args.vaultId, "/", args.token>>)
  /\ PlainCalled("vaultDelete") =>
       /\ request.method = "DELETE"
       /\ AtPath(<<"/", "api", "/", "vault", "/", args.vaultId, "/", args.token>>)
       /\ request.data = JSUndefined
  /\ PlainCalled("protectionSeal") =>
       /\ request.method = "POST"
       /\ AtPath(<<"/", "api", "/", "protection", "/", args.protectionId,
                  "/", "seal">>)
  /\ PlainCalled("protectionOpen") =>
       /\ request.method = "POST"
       /\ AtPath(<<"/", "api", "/", "protection", "/", args.protectionId,
                  "/", "open">>)

\* a vaultUpdate of a client whose server URL has a path of its own is in
\* flight
C16_Witness ==
  /\ PathParamCalled("vaultUpdate")
  /\ Len(config.kastelaUrl) > 1
  /\ request.method = "PUT"
  /\ request.url = <<"https://kastela.test:3100", "/", "api", "/", "vault",
                     "/", "v2", "/", "t1">>

----------------------------------------------------------------------------
\* the list-taking methods of the batched revisions whose items carry an
\* identifier, the fixed path of each, and the name of the identifier in the
\* input and on the wire
IdentifiedListOps ==
  {"vaultStore", "vaultGet", "vaultUpdate", "vaultDelete",
   "protectionTokenize", "protectionSeal", "protectionOpen",
   "cryptoEncrypt", "cryptoHMAC", "cryptoSign"}

FixedPath(o) ==
  CASE o = "vaultStore" -> <<"/", "api", "/", "vault", "/", "store">>
    [] o = "vaultGet" -> <<"/", "api", "/", "vault", "/", "get">>
    [] o = "vaultUpdate" -> <<"/", "api", "/", "vault", "/", "update">>
    [] o = "vaultDelete" -> <<"/", "api", "/", "vault", "/", "delete">>
    [] o = "protectionTokenize" -> <<"/", "api", "/", "protection", "/", "tokenize">>
    [] o = "protectionSeal" -> <<"/", "api", "/", "protection", "/", "seal">>
    [] o = "protectionOpen" -> <<"/", "api", "/", "protection", "/", "open">>
    [] o = "cryptoEncrypt" -> <<"/", "api", "/", "crypto", "/", "encrypt">>
    [] o = "cryptoHMAC" -> <<"/", "api", "/", "crypto", "/", "hmac">>
    [] o = "cryptoSign" -> <<"/", "api", "/", "crypto", "/", "sign">>

CamelId(o) ==
  CASE o \in {"vaultStore", "vaultGet", "vaultUpdate", "vaultDelete"} ->
         "vaultID"
    [] o \in {"protectionTokenize", "protectionSeal", "protectionOpen"} ->
         "protectionID"
    [] OTHER -> "keyID"

SnakeId(o) ==
  CASE o \in {"vaultStore", "vaultGet", "vaultUpdate", "vaultDelete"} ->
         "vault_id"
    [] o \in {"protectionTokenize", "protectionSeal", "protectionOpen"} ->
         "protection_id"
    [] OTHER -> "key_id"

\* C17: in the batched revisions every list-taking operation sends POST to
\* its fixed path, with no identifier in the URL, and a body that is an array
\* with exactly one element per input item, in input order, each element
\* carrying the item's identifier under its snake_case name; an empty input
\* list sends an empty array.
C17_BatchedBodies ==
  rev \in BatchedRevisions /\ op \in IdentifiedListOps /\ Sent =>
    /\ request.method = "POST"
    /\ AtPath(FixedPath(op))
    /\ \A i \in 1..Len(args.input.a) :
         ~Contains(request.url, args.input.a[i].f[CamelId(op)].s)
    /\ Wire.t = "array"
    /\ Len(Wire.a) = Len(args.input.a)
    /\ \A i \in 1..Len(args.input.a) :
         /\ Wire.a[i].t = "object"
         /\ SnakeId(op) \in DOMAIN Wire.a[i].f
         /\ CamelId(op) \notin DOMAIN Wire.a[i].f
         /\ Wire.a[i].f[SnakeId(op)] = args.input.a[i].f[CamelId(op)]
    /\ (args.input.a = <<>> => Wire.a = <<>>)

\* a vaultDelete of two items, the second vault first, is in flight
C17_Witness ==
  /\ BatchedCalled("vaultDelete")
  /\ Len(args.input.a) = 2
  /\ Wire.a[1].f.vault_id = Str("v2")
  /\ Wire.a[2].f.vault_id = Str("v1")

----------------------------------------------------------------------------
\* the field of the success response that carries the decrypted values: the
\* v0.2 batched revision documents and reads data, the revision with the
\* crypto methods documents and reads values
DecryptedField(r) == IF r = "batched-v0.2" THEN "data" ELSE "values"

\* C18: in every batched revision protectionOpen, called with a list of
\* {protectionID, tokens} items, sends each item as {protection_id, tokens}
\* and returns to the caller the list of decrypted values the success
\* response carries.
C18_ProtectionOpenRoundTrip ==
  BatchedCalled("protectionOpen") =>
    /\ request.method = "POST"
    /\ AtPath(<<"/", "api", "/", "protection", "/", "open">>)
    /\ Wire.t = "array"
    /\ Len(Wire.a) = Len(args.input.a)
    /\ \A i \in 1..Len(args.input.a) :
         /\ DOMAIN Wire.a[i].f = {"protection_id", "tokens"}
         /\ Wire.a[i].f.protection_id = args.input.a[i].f.protectionID
         /\ Wire.a[i].f.tokens = args.input.a[i].f.tokens
    /\ (ReturnedObject /\ DecryptedField(rev) \in DOMAIN SuccessBody.f
          => outcome = Fulfilled(SuccessBody.f[DecryptedField(rev)]))

\* a protectionOpen of the v0.2 batched revision returned the decrypted
\* values of the response
C18_Witness ==
  /\ BatchedCalled("protectionOpen")
  /\ rev = "batched-v0.2"
  /\ Len(args.input.a) > 0
  /\ ReturnedObject
  /\ outcome = Fulfilled(JSArray(<<Str("d1")>>))

----------------------------------------------------------------------------
\* C20: the connection configuration (the server URL and the TLS material of
\* the agent) is set once, by the constructor, and no step of any operation
\* changes it, whether the operation succeeds or fails.
C20_ConfigurationFixed == [][config' = config]_vars

\* a call has failed on a client whose server URL is still the one the
\* constructor was given
C20_Witness ==
  /\ pc = "settled"
  /\ dispatches = 1
  /\ outcome.settled = "rejected"
  /\ config.kastelaUrl = <<"https://kastela.test:3100", "/gateway/">>

----------------------------------------------------------------------------
(* A third specification for calls in progress at the same time: the       *)
(* foreground call and a second call on the same client, their steps       *)
(* interleaved in every order                                              *)

\* the state of the foreground call
CallVars ==
  <<pc, op, args, request, axiosResult, dispatched, outcome, attempts,
    dispatches, settles>>

\* a client that keeps the request of the latest call in one place, shared by
\* the calls in progress
SecondInvoke_SharedRequest(o, a) ==
  /\ second.pc = "idle"
  /\ LET call == MethodCall(rev, o, a, config.kastelaUrl)
         sent == [method |-> call.method, url |-> URLToString(call.url),
                  data |-> call.body]
     IN IF call.throws
        THEN /\ second' = [second EXCEPT !.pc = "settled", !.op = o,
                                         !.args = a,
                                         !.outcome = Rejected(call.error)]
             /\ UNCHANGED request
        ELSE /\ second' = [second EXCEPT !.pc = "inflight", !.op = o,
                                         !.args = a, !.request = sent]
             /\ request' = sent
  /\ UNCHANGED <<rev, server, config, pc, op, args, axiosResult, dispatched,
                 outcome, attempts, dispatches, settles>>

\* the second call is made: it runs up to its await, or throws
SecondInvoke(o, a) ==
  /\ second.pc = "idle"
  /\ LET call == MethodCall(rev, o, a, config.kastelaUrl)
     IN second' =
          IF call.throws
          THEN [second EXCEPT !.pc = "settled", !.op = o, !.args = a,
                              !.outcome = Rejected(call.error)]
          ELSE [second EXCEPT !.pc = "inflight", !.op = o, !.args = a,
                              !.request = [method |-> call.method,
                                           url |-> URLToString(call.url),
                                           data |-> call.body]]
  /\ UNCHANGED <<rev, server, config>>
  /\ UNCHANGED CallVars

\* the server answers the request of the second call
SecondRespond(status, data, headers) ==
  /\ second.pc = "inflight"
  /\ second' = [second EXCEPT
                  !.pc = "responded",
                  !.axiosResult = AxiosSettle(Response(status, data, headers))]
  /\ UNCHANGED <<rev, server, config>>
  /\ UNCHANGED CallVars

\* the request of the second call fails without a response
SecondFault(message) ==
  /\ second.pc = "inflight"
  /\ second' = [second EXCEPT !.pc = "responded",
                              !.axiosResult = AxiosFault(message)]
  /\ UNCHANGED <<rev, server, config>>
  /\ UNCHANGED CallVars

\* #request of the second call resumes after its await
SecondRequestResume ==
  /\ second.pc = "responded"
  /\ LET result == RequestResult(rev, second.axiosResult)
     IN second' =
          IF result.settled = "pending"
          THEN [second EXCEPT !.pc = "inflight", !.axiosResult = Pending]
          ELSE [second EXCEPT !.pc = "dispatched", !.dispatched = result]
  /\ UNCHANGED <<rev, server, config>>
  /\ UNCHANGED CallVars

\* the method of the second call resumes after its await of #request
SecondMethodResume ==
  /\ second.pc = "dispatched"
  /\ LET call == MethodCall(rev, second.op, second.args, config.kastelaUrl)
         result == MethodResult(call.unwrap, second.dispatched)
     IN second' =
          IF result.settled = "pending"
          THEN [second EXCEPT !.pc = "inflight", !.axiosResult = Pending,
                              !.dispatched = Pending]
          ELSE [second EXCEPT !.pc = "settled", !.outcome = result]
  /\ UNCHANGED <<rev, server, config>>
  /\ UNCHANGED CallVars

\* the caller has the result of the second call
SecondReturn ==
  /\ second.pc = "settled"
  /\ second' = NoCall
  /\ UNCHANGED <<rev, server, config>>
  /\ UNCHANGED CallVars

\* the methods the two calls are drawn from
PairMethods(r) ==
  Methods(r) \cap {"vaultStore", "vault.store", "secureProtectionInit",
                   "secureProtectionCommit", "privacyProxyRequest",
                   "privacyProxy"}

PairBodies == {ShapeEnvelope, JSObject([error |-> Str("X")])}

PairNext ==
  \/ \E o \in PairMethods(rev) : \E a \in Args(rev, o) : Invoke(o, a)
  \/ \E status \in ShapeStatuses, data \in PairBodies,
        headers \in ShapeHeaders : TransportRespond(status, data, headers)
  \/ \E message \in FaultMessages : TransportFault(message)
  \/ RequestResume
  \/ MethodResume
  \/ Return
  \/ \E o \in PairMethods(rev) : \E a \in Args(rev, o) : SecondInvoke(o, a)
  \/ \E status \in ShapeStatuses, data \in PairBodies,
        headers \in ShapeHeaders : SecondRespond(status, data, headers)
  \/ \E message \in FaultMessages : SecondFault(message)
  \/ SecondRequestResume
  \/ SecondMethodResume
  \/ SecondReturn

SpecPair == Init /\ [][PairNext]_vars

----------------------------------------------------------------------------
\* the request a call of o with arguments a sends, and the outcome of that
\* call when the transport settled its request with res: both read from the
\* method alone
OwnRequest(o, a) ==
  LET call == MethodCall(rev, o, a, config.kastelaUrl)
  IN [method |-> call.method, url |-> URLToString(call.url),
      data |-> call.body]
OwnOutcome(o, a, res) ==
  MethodResult(MethodCall(rev, o, a, config.kastelaUrl).unwrap,
               RequestResult(rev, res))

\* the foreground call and the second call each sent the request of their own
\* arguments and settled with the outcome of their own response
OwnInputsOnly ==
  /\ Sent => request = OwnRequest(op, args)
  /\ Sent /\ pc = "settled" => outcome = OwnOutcome(op, args, axiosResult)
  /\ second.pc \in {"inflight", "responded", "dispatched"} =>
       second.request = OwnRequest(second.op, second.args)
  /\ second.pc = "settled" /\ second.request # NoRequest =>
       /\ second.request = OwnRequest(second.op, second.args)
       /\ second.outcome =
            OwnOutcome(second.op, second.args, second.axiosResult)

\* a step of one call leaves the other call as it was
OneCallPerStep ==
  /\ second' # second => UNCHANGED CallVars
  /\ CallVars' # CallVars => second' = second

\* C19: calls are independent of one another under every ordering and
\* interleaving: each call sends the request of its own arguments and the
\* configuration, settles with the outcome of its own response, and no step
\* of one call changes anything of another call, whether that one is yet to
\* be made, in flight, succeeded or failed.
C19_CallsIndependent == []OwnInputsOnly /\ [][OneCallPerStep]_vars

\* a secureProtectionCommit, made with no init before it, succeeded while
\* another call, made after it, failed
C19_Witness ==
  /\ op = "secureProtectionCommit"
  /\ pc = "settled"
  /\ outcome = Fulfilled(JSUndefined)
  /\ second.pc = "settled"
  /\ second.op # "secureProtectionCommit"
  /\ second.outcome.settled = "rejected"

----------------------------------------------------------------------------
(* A fourth specification for termination: one call at a time, a transport *)
(* that settles every request, and an event loop that resumes every        *)
(* function whose awaited promise has settled                              *)

\* the transport settles the request in flight, with a response or a fault
TransportSettles ==
  \/ \E status \in ShapeStatuses, data \in PairBodies,
        headers \in ShapeHeaders : TransportRespond(status, data, headers)
  \/ \E message \in FaultMessages : TransportFault(message)

\* the vault store method of each revision: every method awaits #request the
\* same way, so one method per revision exercises every settling path
LiveMethods(r) == Methods(r) \cap {"vaultStore", "vault.store"}

LiveNext ==
  \/ \E o \in LiveMethods(rev) : \E a \in Args(rev, o) : Invoke(o, a)
  \/ TransportSettles
  \/ RequestResume
  \/ MethodResume
  \/ Return

SpecLive ==
  /\ Init
  /\ [][LiveNext]_vars
  /\ WF_vars(TransportSettles)
  /\ WF_vars(RequestResume)
  /\ WF_vars(MethodResume)

\* the call has settled exactly once and nothing of it is left running: the
\* one request it sent, if any, has been answered
SettledOnceAndQuiet ==
  pc = "settled" =>
    /\ settles = 1
    /\ outcome.settled \in {"fulfilled", "rejected"}
    /\ attempts = dispatches
    /\ attempts <= 1
    /\ (attempts = 1 => axiosResult.settled \in {"fulfilled", "rejected"})

\* C21: if the transport eventually settles the request, every public call
\* eventually settles, exactly once, resolving with a value or rejecting with
\* an error, and then it has no request outstanding and nothing else running.
C21_EveryCallSettlesOnce ==
  /\ (pc # "idle") ~> (pc = "settled")
  /\ []SettledOnceAndQuiet
  /\ [][settles' > settles => pc' = "settled" /\ settles = 0]_vars

\* a call whose request ended in a fault has settled, rejected
C21_Witness ==
  /\ pc = "settled"
  /\ settles = 1
  /\ GotFault
  /\ outcome.settled = "rejected"

----------------------------------------------------------------------------
\* size is a number other than 0 and NaN / after is a string with characters
NonZeroNumber(size) == size.t = "number" /\ size # JSNaN /\ size.n # 0
NonEmptyString(after) == after.t = "string" /\ Len(after.s) > 0

\* the request a call with arguments a of method o makes
RequestOf(o, a) ==
  LET call == MethodCall(rev, o, a, config.kastelaUrl)
  IN [method |-> call.method, url |-> URLToString(call.url),
      data |-> call.body]

\* the input object of a batched search without the fields in drop
WithoutFields(input, drop) ==
  JSObject([n \in DOMAIN input.f \ drop |-> input.f[n]])

\* C22: a vault search always sends search, also when it is the empty
\* string; it sends size exactly when size is a number other than 0 and NaN
\* and after exactly when after is a non-empty string; a search given size 0
\* or NaN and/or an empty after makes the same request as the search with
\* those parameters left out.
C22_FalsyPagingOmitted ==
  /\ PathParamCalled("vaultFetch") =>
       LET sizeSent == NonZeroNumber(args.size)
           afterSent == NonEmptyString(args.after)
       IN /\ request.url =
               Origin(config.kastelaUrl)
                 \o <<"/", "api", "/", "vault", "/", args.vaultId, "?", "search", "=">>
                 \o args.search
                 \o (IF sizeSent
                     THEN <<"&", "size", "=">> \o NatToString(args.size.n)
                     ELSE <<>>)
                 \o (IF afterSent
                     THEN <<"&", "after", "=">> \o args.after.s ELSE <<>>)
          /\ request =
               RequestOf(op, [args EXCEPT
                                !.size = IF sizeSent THEN @ ELSE JSUndefined,
                                !.after = IF afterSent THEN @ ELSE JSUndefined])
  /\ BatchedCalled("vaultFetch") =>
       LET size == GetProp(args.input, "size")
           after == GetProp(args.input, "after")
           drop == (IF NonZeroNumber(size) THEN {} ELSE {"size"})
                     \cup (IF NonEmptyString(after) THEN {} ELSE {"after"})
       IN /\ Wire.t = "object"
          /\ DOMAIN Wire.f = {"vault_id", "search", "size", "after"} \ drop
          /\ Wire.f.search = GetProp(args.input, "search")
          /\ (NonZeroNumber(size) => Wire.f.size = size)
          /\ (NonEmptyString(after) => Wire.f.after = after)
          /\ request = RequestOf(op, [input |-> WithoutFields(args.input, drop)])

\* a search for the empty string with size 0 and an empty after is in flight
\* in a path-parameter revision
C22_Witness ==
  /\ PathParamCalled("vaultFetch")
  /\ args.search = <<>>
  /\ args.size = JSNumber(0)
  /\ args.after = EmptyString
  /\ ~Contains(request.url, <<"size">>)

----------------------------------------------------------------------------
\* the falsy bodies a response can carry
FalsyBodies == {EmptyString, JSNull, JSNumber(0), JSBoolean(FALSE)}

\* C23: a non-2xx response whose body is the empty string, null, 0 or false
\* is handled as a fault without a response is: #request rethrows the axios
\* error itself, response attached, and builds no error of its own.
C23_FalsyBodyRethrown ==
  (GotNon2xx /\ Dispatched /\ TheResponse.data \in FalsyBodies)
    => /\ dispatched = axiosResult
       /\ dispatched.settled = "rejected"
       /\ dispatched.error.name = "AxiosError"
       /\ dispatched.error.site # "normalizer"
       /\ dispatched.error.response = TheResponse
       /\ (pc = "settled" => outcome = axiosResult)

C23_Witness ==
  /\ pc = "settled"
  /\ GotNon2xx
  /\ TheResponse.data = JSNull
  /\ outcome = axiosResult
  /\ outcome.error.name = "AxiosError"

----------------------------------------------------------------------------
\* the response carries an object or an array
StructuredBody == TheResponse.data.t \in {"object", "array"}

\* C24: a non-2xx response whose body is an object or an array makes
\* #request throw a new Error whose message is the body's error field as a
\* string; when the body has no error field (every array, and an object
\* without one) the message is empty.
C24_StructuredBodyMessage ==
  (GotNon2xx /\ Dispatched /\ StructuredBody)
    => LET field == GetProp(TheResponse.data, "error")
       IN /\ dispatched.settled = "rejected"
          /\ dispatched.error.name = "Error"
          /\ dispatched.error.site = "normalizer"
          /\ dispatched.error.response = JSUndefined
          /\ (field.t = "string" => dispatched.error.message = field.s)
          /\ (field.t = "number" =>
                dispatched.error.message = StringOf(field))
          /\ (field.t = "undefined" => dispatched.error.message = <<>>)
          /\ (pc = "settled" => outcome = dispatched)

C24_Witness ==
  /\ pc = "settled"
  /\ GotNon2xx
  /\ TheResponse.data = JSObject([message |-> Str("oops")])
  /\ outcome.settled = "rejected"
  /\ outcome.error.name = "Error"
  /\ outcome.error.message = <<>>

----------------------------------------------------------------------------
\* a method of a batched revision that takes a list was called with a single
\* item instead of a list
ScalarGiven ==
  /\ rev \in BatchedRevisions
  /\ op \in ListOps
  /\ pc # "idle"
  /\ args.input.t # "array"

\* C25: a method of a batched revision that is given a single item instead
\* of a list sends a request whose body is the one-element list of that
\* item's wire form.
C25_ScalarWrapped ==
  ScalarGiven =>
    /\ Sent
    /\ request.data.t = "array"
    /\ request.data = RequestOf(op, [input |-> JSArray(<<args.input>>)]).data

----------------------------------------------------------------------------
\* the path-parameter methods other than the search, and the number of path
\* segments of the template of each
SegmentOps ==
  {"vaultStore", "vaultGet", "vaultUpdate", "vaultDelete", "protectionSeal",
   "protectionOpen"}

\* the tokens of the request URL after the origin
AfterOrigin ==
  SubSeq(request.url, Len(Origin(config.kastelaUrl)) + 1, Len(request.url))

\* the segments of the path of the request URL
PathSegments == Segments(AfterOrigin)

\* the segments the template of the method has for the identifiers given
TemplateSegments ==
  LET o == FlatName(op)
  IN CASE o = "vaultStore" -> <<<<"api">>, <<"vault">>, <<args.vaultId>>,
                                <<"store">>>>
       [] o = "vaultGet" -> <<<<"api">>, <<"vault">>, <<args.vaultId>>,
                              <<"get">>>>
       [] o \in {"vaultUpdate", "vaultDelete"} ->
            <<<<"api">>, <<"vault">>, <<args.vaultId>>, <<args.token>>>>
       [] o = "protectionSeal" ->
            <<<<"api">>, <<"protection">>, <<args.protectionId>>, <<"seal">>>>
       [] o = "protectionOpen" ->
            <<<<"api">>, <<"protection">>, <<args.protectionId>>, <<"open">>>>

\* C26: whatever identifiers a path-parameter method is given, its request
\* goes to the configured origin, its URL has no query string and no
\* fragment, and its path has exactly the segments of the template, with the
\* fixed segments in their places and each identifier in one segment.
C26_IdsStayInSegment ==
  (\E o \in SegmentOps : PathParamCalled(o)) =>
    /\ SubSeq(request.url, 1, Len(Origin(config.kastelaUrl)))
         = Origin(config.kastelaUrl)
    /\ ~HasToken(request.url, "?")
    /\ ~HasToken(request.url, "#")
    /\ Len(PathSegments) = Len(TemplateSegments)
    /\ \A i \in 1..Len(TemplateSegments) :
         TemplateSegments[i][1] \notin HostileIds =>
           PathSegments[i] = TemplateSegments[i]

----------------------------------------------------------------------------
\* what the method of the call in progress does with the response body
Unwrapping == MethodCall(rev, op, args, config.kastelaUrl).unwrap

\* the call got a success response whose body is an object without the field
\* its method unwraps, and has settled
FieldMissing ==
  /\ ReturnedObject
  /\ Unwrapping.kind \in {"field", "credential"}
  /\ Unwrapping.field \notin DOMAIN SuccessBody.f

\* C27 as stated: when the body of an accepted success response is an object
\* without the field the method unwraps, the call resolves with undefined.
C27_MissingFieldUndefined_Original ==
  FieldMissing => outcome = Fulfilled(JSUndefined)

\* C27 amended: when the body of an accepted success response is an object
\* without the field the method unwraps, the call resolves, never fails:
\* with undefined, and for secureProtectionInit and secureVaultInit with an
\* object whose credential is undefined.
C27_MissingFieldResolves ==
  FieldMissing =>
    /\ outcome.settled = "fulfilled"
    /\ op \in {"secureProtectionInit", "secureVaultInit"} =>
         outcome.value = JSObject([credential |-> JSUndefined])
    /\ op \notin {"secureProtectionInit", "secureVaultInit"} =>
         outcome.value = JSUndefined

C27_Witness ==
  /\ FieldMissing
  /\ op = "secureProtectionInit"
  /\ SuccessBody = JSObject([error |-> Str("X")])
  /\ outcome = Fulfilled(JSObject([credential |-> JSUndefined]))

----------------------------------------------------------------------------
\* what the #request of revision r makes of the settled axios call
ResultIn(r) == RequestResult(r, axiosResult)

\* h is a version string: no range of any expected-version constant accepts
\* anything else
IsVersionString(h) == h.t = "string" /\ ParseSemVer(h.s).ok

\* C28: the #request of every revision is the same up to the
\* expected-version constant: after a non-2xx response or a fault all
\* revisions throw the same error; after a 2xx response all revisions that
\* accept it return the same body; and a revision accepts a 2xx response
\* only for a version string in the header, as its constant decides.
C28_SameUpToConstant ==
  (Answered /\ Dispatched) =>
    \A r \in Revisions :
      /\ (GotNon2xx \/ GotFault) => ResultIn(r) = dispatched
      /\ (Got2xx /\ dispatched.settled = "fulfilled"
            /\ ResultIn(r).settled = "fulfilled") => ResultIn(r) = dispatched
      /\ (Got2xx /\ ResultIn(r).settled = "fulfilled") =>
           IsVersionString(VersionHeader)

----------------------------------------------------------------------------
(* The example servers: an express application around one client *)

\* the six example servers
Servers ==
  {"namespaced", "pathparam-proxy", "crypto", "batched", "pathparam",
   "crypto-full"}

\* the client revision an example server is written for
ClientOf(s) ==
  CASE s = "namespaced" -> "namespaced-v0.0"
    [] s = "pathparam-proxy" -> "pathparam-v0.2"
    [] s = "crypto" -> "batched-crypto"
    [] s = "batched" -> "batched-v0.2"
    [] s = "pathparam" -> "pathparam-v0.0"
    [] s = "crypto-full" -> "batched-crypto"

\* the batched routes, named by the client method they call
BatchedRoutes ==
  {"vaultStore", "vaultGet", "vaultUpdate", "vaultDelete", "protectionSeal",
   "protectionOpen"}

\* the routes of a server that are modelled: the batched routes, or the
\* vault search route of the servers of the path-parameter revisions
Routes(s) ==
  IF ClientOf(s) \in BatchedRevisions THEN BatchedRoutes ELSE {"vaultFetch"}

\* the route builds the client input with req.body.map(...); the protection
\* routes of two servers hand req.body to the client as it is
MapsBody(s, route) ==
  \/ route \in {"vaultStore", "vaultGet", "vaultUpdate", "vaultDelete"}
  \/ s = "crypto-full"

\* the camelCase item a route makes of the snake_case item v
CamelItem(route, v) ==
  CASE route \in {"vaultStore", "vaultUpdate"} ->
         JSObject([vaultID |-> GetProp(v, "vault_id"),
                   values |-> GetProp(v, "values")])
    [] route \in {"vaultGet", "vaultDelete"} ->
         JSObject([vaultID |-> GetProp(v, "vault_id"),
                   tokens |-> GetProp(v, "tokens")])
    [] route = "protectionSeal" ->
         JSObject([protectionID |-> GetProp(v, "protection_id"),
                   primaryKeys |-> GetProp(v, "primary_keys")])
    [] route = "protectionOpen" ->
         JSObject([protectionID |-> GetProp(v, "protection_id"),
                   tokens |-> GetProp(v, "tokens")])

\* Number.parseInt(s) for a string of characters: the number its leading
\* digits spell, NaN when it does not start with a digit
ParseInt(s) ==
  LET k == CHOOSE n \in 0..Len(s) :
             /\ \A i \in 1..n : IsDigit(s[i])
             /\ (n < Len(s) => ~IsDigit(s[n + 1]))
  IN IF k = 0 THEN JSNaN ELSE JSNumber(ParseNat(SubSeq(s, 1, k)))

\* what a handler does before its await: it throws, or calls a client method
HandlerThrow(name, message) ==
  [throws |-> TRUE,
   error |-> [NewError(JSString(message), "handler") EXCEPT !.name = name]]
HandlerCall(o, a) == [throws |-> FALSE, op |-> o, args |-> a]

\* the handler of the vault search route
FetchHandler(s, req) ==
  IF ~Truthy(req.search)
  THEN HandlerThrow("Error", <<"search not found in query parameter">>)
  ELSE HandlerCall(IF s = "namespaced" THEN "vault.fetch" ELSE "vaultFetch",
                   [vaultId |-> req.vaultId,
                    search |-> StringOf(req.search),
                    size |-> ParseInt(IF Truthy(req.size)
                                      THEN StringOf(req.size) ELSE <<"0">>),
                    after |-> req.after])

\* the handler of a batched route
BatchedHandler(s, req) ==
  IF ~MapsBody(s, req.route)
  THEN HandlerCall(req.route, [input |-> req.body])
  ELSE IF req.body.t # "array"
  THEN HandlerThrow("TypeError", <<"req.body.map is not a function">>)
  ELSE HandlerCall(req.route,
                   [input |-> MapItems(req.body,
                                       LAMBDA v : CamelItem(req.route, v))])

\* the handler of the route of the request
Handler(s, req) ==
  IF req.route = "vaultFetch" THEN FetchHandler(s, req)
  ELSE BatchedHandler(s, req)

\* the error middleware: res.status(500).send(err.message)
ErrorResponse(err) == [status |-> 500, body |-> JSString(err.message)]

\* what a handler sends after its await: "OK" or the value the client gave
SuccessResponse(route, value) ==
  [status |-> 200,
   body |-> IF route \in {"vaultUpdate", "vaultDelete", "protectionSeal"}
            THEN Str("OK") ELSE value]

\* the snake_case items a batched route is sent
WireItems(route) ==
  CASE route \in {"vaultStore", "vaultUpdate"} ->
         {JSObject([vault_id |-> Str("v1"), values |-> Items]),
          JSObject([vault_id |-> Str("v2"), values |-> JSArray(<<>>)])}
    [] route \in {"vaultGet", "vaultDelete"} ->
         {JSObject([vault_id |-> Str("v1"), tokens |-> Items]),
          JSObject([vault_id |-> Str("v2"), tokens |-> JSArray(<<>>)])}
    [] route = "protectionSeal" ->
         {JSObject([protection_id |-> Str("p1"), primary_keys |-> Items]),
          JSObject([protection_id |-> Str("p2"),
                    primary_keys |-> JSArray(<<>>)])}
    [] route = "protectionOpen" ->
         {JSObject([protection_id |-> Str("p1"), tokens |-> Items]),
          JSObject([protection_id |-> Str("p2"), tokens |-> JSArray(<<>>)])}

\* a request without parameters and body
NoQuery ==
  [vaultId |-> "", search |-> JSUndefined, size |-> JSUndefined,
   after |-> JSUndefined, body |-> JSUndefined]

\* the requests an example server is sent: lists of snake_case items and
\* a body that is no list for the batched routes, searches with and without
\* search, size and after for the search route
ServerRequests(s) ==
  IF ClientOf(s) \in BatchedRevisions
  THEN {[NoQuery EXCEPT !.body = EmptyObject] @@ [route |-> r] :
          r \in Routes(s)}
         \cup UNION {{[NoQuery EXCEPT !.body = JSArray(items)]
                        @@ [route |-> r] :
                        items \in SeqsUpTo(WireItems(r), MaxItems)} :
                     r \in Routes(s)}
  ELSE {[NoQuery EXCEPT !.vaultId = "v1", !.search = q, !.size = size,
                        !.after = after] @@ [route |-> "vaultFetch"] :
          q \in {JSUndefined, EmptyString, Str("x")},
          size \in {JSUndefined, JSString(<<"0">>), JSString(<<"1", "0">>),
                    JSString(<<"a", "b", "c">>), JSString(<<"1", "0", "a">>)},
          after \in {JSUndefined, Str("cursor1")}}

\* a request reaches the application and is parsed
ServerReceive(s, req) ==
  /\ server.pc = "idle"
  /\ pc = "idle"
  /\ ClientOf(s) = rev
  /\ server' = [IdleServer EXCEPT !.pc = "received", !.name = s, !.req = req]
  /\ UNCHANGED <<rev, config, second>>
  /\ UNCHANGED CallVars

\* the handler runs to its await of the client call; when it throws first,
\* its catch block passes the error to the error middleware
ServerHandle ==
  /\ server.pc = "received"
  /\ pc = "idle"
  /\ LET h == Handler(server.name, server.req)
     IN IF h.throws
        THEN /\ server' = [server EXCEPT
                             !.pc = "done",
                             !.err = h.error,
                             !.responses = Append(@, ErrorResponse(h.error))]
             /\ UNCHANGED <<rev, config, second>>
             /\ UNCHANGED CallVars
        ELSE Invoke(h.op, h.args)

\* the client call has settled: the handler sends its result, or its catch
\* block passes the error to the error middleware
ServerReply ==
  /\ server.pc = "received"
  /\ pc = "settled"
  /\ server' =
       IF outcome.settled = "rejected"
       THEN [server EXCEPT
               !.pc = "done",
               !.err = outcome.error,
               !.responses = Append(@, ErrorResponse(outcome.error))]
       ELSE [server EXCEPT
               !.pc = "done",
               !.responses = Append(@, SuccessResponse(server.req.route,
                                                       outcome.value))]
  /\ UNCHANGED <<rev, config, second>>
  /\ UNCHANGED CallVars

\* the response is out; the server is ready for the next request
ServerDone ==
  /\ server.pc = "done"
  /\ pc = "idle"
  /\ server' = IdleServer
  /\ UNCHANGED <<rev, config, second>>
  /\ UNCHANGED CallVars

ServerNext ==
  \/ \E s \in Servers : \E req \in ServerRequests(s) : ServerReceive(s, req)
  \/ ServerHandle
  \/ TransportSettles
  \/ RequestResume
  \/ MethodResume
  \/ ServerReply
  \/ server.pc = "done" /\ Return
  \/ ServerDone

SpecServer == Init /\ [][ServerNext]_vars

----------------------------------------------------------------------------
\* the handler of a batched route has called the client for a request whose
\* body is a list, and the client has sent its request
Relayed ==
  /\ server.pc = "received"
  /\ server.req.route \in BatchedRoutes
  /\ server.req.body.t = "array"
  /\ Sent

\* C29: for every batched vault and protection route of every example
\* server, the body the client sends to the Kastela server has the fields
\* and values of the snake_case body the example server received.
C29_RelayIsIdentity ==
  Relayed => Wire = WireBody(server.req.body)

\* the same for the routes that build the client input with req.body.map
MappedRelayIsIdentity ==
  (Relayed /\ MapsBody(server.name, server.req.route))
    => Wire = WireBody(server.req.body)

----------------------------------------------------------------------------
\* the text is a decimal number
Numeric(v) ==
  /\ v.t = "string"
  /\ Len(v.s) > 0
  /\ \A i \in 1..Len(v.s) : IsDigit(v.s[i])

\* the one response of a finished request
TheReply == server.responses[1]

\* every request gets at most one response, and exactly one when its handler
\* has finished; a failure of the handler or of the client is answered with
\* status 500 and the message of the error, everything else with status 200
OneResponse ==
  /\ Len(server.responses) <= 1
  /\ server.pc \in {"idle", "received"} => Len(server.responses) = 0
  /\ server.pc = "done" =>
       /\ Len(server.responses) = 1
       /\ (pc = "settled" /\ outcome.settled = "rejected") =>
            server.err = outcome.error
       /\ (pc = "settled" /\ outcome.settled = "fulfilled") =>
            /\ server.err = JSUndefined
            /\ TheReply = SuccessResponse(server.req.route, outcome.value)
       /\ IF server.err = JSUndefined
          THEN TheReply.status = 200
          ELSE TheReply = [status |-> 500,
                           body |-> JSString(server.err.message)]

\* a search request without a search parameter is answered with the error
\* and the client is never called
SearchRequired ==
  (/\ server.pc # "idle"
   /\ server.req.route = "vaultFetch"
   /\ ~Truthy(server.req.search))
    => /\ pc = "idle"
       /\ server.pc = "done" =>
            TheReply = [status |-> 500,
                        body |-> Str("search not found in query parameter")]

\* the search route has made its upstream request
SearchSent ==
  /\ server.pc = "received"
  /\ server.req.route = "vaultFetch"
  /\ Sent

\* C30: in the example servers every request gets exactly one response; a
\* failure is answered with status 500 and the error's message and no
\* success body; a search request without search is answered that way with
\* "search not found in query parameter" and no client call; a size
\* parameter that is absent or not a number sends no size upstream.
C30_OneResponsePerRequest ==
  /\ OneResponse
  /\ SearchRequired
  /\ (SearchSent /\ ~Numeric(server.req.size)) =>
       ~HasToken(request.url, "size")

\* the same, for a size that is absent or does not start with a digit
SizeWithoutLeadingDigit ==
  /\ OneResponse
  /\ SearchRequired
  /\ (SearchSent /\ ~(Truthy(server.req.size)
                        /\ IsDigit(server.req.size.s[1]))) =>
       ~HasToken(request.url, "size")

====
